---- MODULE Spec2Model ----
(***************************************************************************)
(* Verification model of the Flow orchestrator (lauripiispanen/flow).      *)
(*                                                                         *)
(* Spec        the run loop of src/main.rs: iterations, auto-triggered     *)
(*             dependent cycles, denial and health gates, shutdown flag,   *)
(*             history log and progress file.                              *)
(* SpecDriver  the subprocess driver run_command_with_display of           *)
(*             src/cycle/executor.rs: event loop, accumulator, circuit     *)
(*             breaker, child process.                                     *)
(* SpecHealth  the pure function check_run_health on bounded histories.    *)
(* SpecRules   the pure function find_triggered_cycles on bounded          *)
(*             configurations and logs.                                    *)
(*                                                                         *)
(* Option<T> is a sequence of length 0 (None) or 1 (Some).  Timestamps,    *)
(* floating point costs and stderr text are not represented.               *)
(***************************************************************************)
EXTENDS Integers, Sequences, FiniteSets, TLC

VARIABLES
    config,          \* FlowConfig: cycles in declaration order + [global] safeguards
    cli,             \* Cli: --cycle (Option) and --max-iterations
    shutdown,        \* Arc<AtomicBool> set by the Ctrl+C task
    log,             \* contents of the JSONL history log (Seq of CycleOutcome)
    iteration,       \* main: let mut iteration
    run_history,     \* main: Vec<RunOutcome>
    progress,        \* main: RunProgress
    progress_file,   \* contents of progress.json (None when the file is absent)
    pc,              \* position of the run loop
    cycle_name,      \* main: the primary cycle resolved for this iteration
    executing,       \* cycle handed to execute_and_log and whether it is a dependent
    result,          \* CycleResult of the last execution (Option)
    log_entries,     \* execute_and_log: the entries read for context injection (Option)
    triggered,       \* run_dependent_cycles: dependents not yet visited by the for loop
    exit_status,     \* "running" while the process lives, else how it ended
    shutdown_at_finish,  \* history: value of the flag when the last execution returned
    primaries_started,   \* history: number of primary cycles started by the loop
    dpc,             \* position of the subprocess driver
    threshold,       \* circuit_breaker_threshold handed to the driver
    fed,             \* history: the events handed to accumulator.process, in order
    accumulator,     \* StreamAccumulator
    consecutive_denials, \* run_command_with_display: let mut consecutive_denials
    child,           \* the child process: state, exit code, whether the driver killed it
    driver_ret,      \* Some(exit_code) once the driver has returned Ok
    call,            \* argument record of a pure-function call
    ret,             \* its return value
    fs,              \* the log directory: names -> inode, and the contents of the inodes
    writer,          \* ProgressWriter::write / delete in progress and the snapshot handed to it
    observer,        \* an external reader of progress.json
    steps,           \* execute_steps: cycle.steps of the multi-step cycle being executed
    spc,             \* position of execute_steps
    step_index,      \* position of `for step in &cycle.steps`
    session_mgr,     \* SessionManager::tag_to_id
    totals,          \* the aggregates of execute_steps (total_*, all_files_changed, last_*)
    trace,           \* history: per executed step its index, argv and what the driver returned
    steps_ret,       \* what execute_steps returned
    execs            \* history: the session tags registered before this execution and so far

run_vars == <<config, cli, log, log_entries, iteration, run_history, progress, progress_file, pc, cycle_name,
              executing, result, triggered, exit_status, shutdown_at_finish,
              primaries_started>>
driver_vars == <<dpc, threshold, fed, accumulator, consecutive_denials, child, driver_ret>>
fn_vars == <<call, ret>>
file_vars == <<fs, writer, observer>>
\* the variables of the specifications of single components, left alone by the rest
steps_vars == <<steps, spc, step_index, session_mgr, totals, trace, steps_ret, execs>>
other_vars == <<file_vars, steps_vars>>
vars == <<run_vars, shutdown, driver_vars, fn_vars, other_vars>>

(***************************************************************************)
(* Bounds                                                                  *)
(***************************************************************************)
MaxIterations == 2
MaxPriorLog == 3
MaxInterval == 3
MaxDenials == 2
MaxFailures == 2
MaxHistory == 4
MaxEvents == 4
MaxThreshold == 3
MaxSnapshots == 3
MaxChunks == 2
MaxSteps == 3
MaxVisits == 1
U32Bits == 2
MaxLines == 2
MaxWordLen == 2
MaxBlocks == 2
MaxPerms == 2
MaxRouterLines == 2

None == <<>>
Some(x) == <<x>>
unwrap_or(o, d) == IF o = None THEN d ELSE o[1]
\* Result<T>
Ok(v) == [ok |-> TRUE, value |-> v]
Err == [ok |-> FALSE, value |-> None]
\* u32::MAX, for a u32 of U32Bits bits
u32_MAX == 2^U32Bits - 1
wrapping_add(a, b) == (a + b) % (u32_MAX + 1)
saturating_add(a, b) == IF a + b > u32_MAX THEN u32_MAX ELSE a + b

(***************************************************************************)
(* Configuration (src/cycle/config.rs)                                     *)
(***************************************************************************)
CycleNames == <<"coding", "gardening">>
NameSet == {CycleNames[i] : i \in 1..Len(CycleNames)}

\* CycleConfig: name, `after` (only membership is ever tested), min_interval
CycleConfig(name, after, min_interval) ==
    [name |-> name, after |-> after, min_interval |-> min_interval]

get_cycle(cfg, name) ==
    LET hits == SelectSeq(cfg.cycles, LAMBDA c : c.name = name)
    IN  IF hits = <<>> THEN None ELSE Some(Head(hits))

\* FlowConfig::validate: unique names, every `after` reference names a cycle
validate(cfg) ==
    /\ \A i, j \in 1..Len(cfg.cycles) :
          cfg.cycles[i].name = cfg.cycles[j].name => i = j
    /\ \A i \in 1..Len(cfg.cycles) :
          cfg.cycles[i].after \subseteq {cfg.cycles[j].name : j \in 1..Len(cfg.cycles)}

(***************************************************************************)
(* Rules engine (src/cycle/rules.rs)                                       *)
(***************************************************************************)
RECURSIVE rev_position(_, _, _)
\* log.iter().rev().position(|entry| entry.cycle == name), scanning from d
rev_position(entries, name, d) ==
    IF d >= Len(entries) THEN None
    ELSE IF entries[Len(entries) - d].cycle = name THEN Some(d)
    ELSE rev_position(entries, name, d + 1)

\* the frequency gate with a strict comparison: the distance must exceed min_interval
frequency_gate_strict(c, entries) ==
    IF c.min_interval = None THEN TRUE
    ELSE LET p == rev_position(entries, c.name, 0)
         IN  p = None \/ p[1] > c.min_interval[1]

\* the frequency gate passing one entry early
frequency_gate_early(c, entries) ==
    IF c.min_interval = None THEN TRUE
    ELSE LET p == rev_position(entries, c.name, 0)
         IN  p = None \/ p[1] + 1 >= c.min_interval[1]

\* the second filter closure of find_triggered_cycles
frequency_gate(c, entries) ==
    IF c.min_interval = None THEN TRUE
    ELSE LET p == rev_position(entries, c.name, 0)
         IN  p = None \/ p[1] >= c.min_interval[1]

\* a trigger that does not look at `after`
find_triggered_cycles_any(cfg, completed_cycle, entries) ==
    LET fires(c) == frequency_gate(c, entries)
        sel == SelectSeq(cfg.cycles, fires)
    IN  [i \in 1..Len(sel) |-> sel[i].name]

find_triggered_cycles(cfg, completed_cycle, entries) ==
    LET fires(c) == completed_cycle \in c.after /\ frequency_gate(c, entries)
        sel == SelectSeq(cfg.cycles, fires)
    IN  [i \in 1..Len(sel) |-> sel[i].name]

(***************************************************************************)
(* Gates (src/main.rs)                                                     *)
(***************************************************************************)
RECURSIVE health_scan(_, _, _, _)
\* the for loop of check_run_health, at index i with the running counter
health_scan(history, max_consecutive_failures, i, consecutive) ==
    IF i > Len(history) THEN FALSE
    ELSE IF history[i].success
         THEN health_scan(history, max_consecutive_failures, i + 1, 0)
    ELSE IF consecutive + 1 >= max_consecutive_failures THEN TRUE
    ELSE health_scan(history, max_consecutive_failures, i + 1, consecutive + 1)

\* a health check that counts all the failures of the run, consecutive or not
check_run_health_total(history, max_consecutive_failures) ==
    /\ max_consecutive_failures > 0
    /\ Cardinality({i \in 1..Len(history) : ~history[i].success}) >= max_consecutive_failures

\* TRUE stands for Some(reason), FALSE for None
check_run_health(history, max_consecutive_failures) ==
    IF max_consecutive_failures = 0 THEN FALSE
    ELSE health_scan(history, max_consecutive_failures, 1, 0)

\* the denial gate firing also on a count equal to the threshold
check_denial_gate_at_threshold(denials, max_denials) == denials >= max_denials

\* TRUE when check_denial_gate calls std::process::exit(1)
check_denial_gate(denials, max_denials) == denials > max_denials

format_exit_code(exit_code) ==
    IF exit_code = None THEN "unknown" ELSE ToString(exit_code[1])

\* an outcome numbered from 0
build_outcome_from_zero(res, iter) ==
    [iteration |-> iter - 1,
     cycle |-> res.cycle_name,
     outcome |-> IF res.result_text # None THEN res.result_text[1]
                 ELSE IF res.success THEN "Completed successfully"
                 ELSE "Failed with exit code " \o format_exit_code(res.exit_code),
     duration_secs |-> res.duration_secs,
     permission_denial_count |-> res.permission_denial_count]

build_outcome(res, iter) ==
    [iteration |-> iter,
     cycle |-> res.cycle_name,
     outcome |-> IF res.result_text # None THEN res.result_text[1]
                 ELSE IF res.success THEN "Completed successfully"
                 ELSE "Failed with exit code " \o format_exit_code(res.exit_code),
     duration_secs |-> res.duration_secs,
     permission_denial_count |-> res.permission_denial_count]

(***************************************************************************)
(* Cycle execution as seen by the run loop (src/cycle/executor.rs)         *)
(***************************************************************************)
ExitCodes == {Some(0), Some(1)}
\* StreamAccumulator.result: no Result event, or one with its denial list length
\* (the configured threshold and one above it)
AccResults == {None} \cup {Some([result_text |-> "Done", denials |-> n]) : n \in MaxDenials..(MaxDenials + 1)}
Durations == {1}

\* build_cycle_result for a single-step cycle
build_cycle_result(name, exit_code, duration_secs, acc_result) ==
    [cycle_name |-> name,
     success |-> (exit_code = Some(0)),
     exit_code |-> exit_code,
     duration_secs |-> duration_secs,
     result_text |-> IF acc_result = None THEN None ELSE Some(acc_result[1].result_text),
     permission_denial_count |-> IF acc_result = None THEN None ELSE Some(acc_result[1].denials)]

CycleResults(name) ==
    {build_cycle_result(name, e, d, a) : e \in ExitCodes, d \in Durations, a \in AccResults}

(***************************************************************************)
(* Progress file (src/log/progress.rs)                                     *)
(***************************************************************************)
\* RunProgress::new / the literal in main
NewProgress(max_iterations) ==
    [current_iteration |-> 1,
     max_iterations |-> max_iterations,
     current_cycle |-> "",
     current_status |-> "running",
     cycles_executed |-> [n \in NameSet |-> 0],
     total_duration_secs |-> 0,
     last_outcome |-> None]

\* a progress update that keeps the duration of the last execution only
update_progress_last_duration(p, name, res) ==
    [p EXCEPT !.cycles_executed[name] = @ + 1,
              !.total_duration_secs = res.duration_secs,
              !.last_outcome = res.result_text]

update_progress_after_cycle(p, name, res) ==
    [p EXCEPT !.cycles_executed[name] = @ + 1,
              !.total_duration_secs = @ + res.duration_secs,
              !.last_outcome = res.result_text]

(***************************************************************************)
(* Inputs of a run                                                         *)
(***************************************************************************)
MinIntervals == {None} \cup {Some(n) : n \in 0..MaxInterval}

\* Configurations of a run: the first cycle is after nothing or after every
\* cycle, the second after any set of cycles.  A min_interval is drawn only for
\* the second cycle of the configuration "second after first, first after
\* nothing"; it is never read for a cycle with an empty `after`.
Configs ==
    {cfg \in [cycles : {<<CycleConfig(CycleNames[1], a1, None),
                          CycleConfig(CycleNames[2], a2, m2)>> :
                            a1 \in {{}, NameSet}, a2 \in SUBSET NameSet,
                            m2 \in {None, Some(MaxInterval)}},
              max_permission_denials : {MaxDenials},
              max_consecutive_failures : 0..MaxFailures] :
        /\ validate(cfg)
        /\ cfg.cycles[2].min_interval # None =>
              cfg.cycles[1].after = {} /\ cfg.cycles[2].after = {CycleNames[1]}}

\* validate_cli: --cycle must name a configured cycle; without it the selector
\* is used and --max-iterations must exceed 1
Clis(cfg) ==
    {c \in [cycle : {None} \cup {Some(n) : n \in NameSet}, max_iterations : 1..MaxIterations] :
        /\ c.cycle # None => get_cycle(cfg, c.cycle[1]) # None
        /\ c.cycle = None => c.max_iterations > 1}

\* entries left in the log file by earlier runs
PriorEntry(i, name) ==
    [iteration |-> i, cycle |-> name, outcome |-> "Completed successfully",
     duration_secs |-> 1, permission_denial_count |-> None]
PriorLogs ==
    UNION {{[i \in 1..k |-> PriorEntry(i, f[i])] : f \in [1..k -> NameSet]} : k \in 0..MaxPriorLog}

NoChild == [state |-> "none", code |-> None, kill_sent |-> FALSE]
NoDriver ==
    /\ dpc = "idle" /\ threshold = 0 /\ fed = <<>> /\ accumulator = None
    /\ consecutive_denials = 0 /\ child = NoChild /\ driver_ret = None
NoCall == call = None /\ ret = None
NoFiles == fs = None /\ writer = None /\ observer = None
NoSteps ==
    /\ steps = None /\ spc = "idle" /\ step_index = 0 /\ session_mgr = None /\ totals = None
    /\ trace = <<>> /\ steps_ret = None /\ execs = None
NoOther == NoFiles /\ NoSteps
NoRun ==
    /\ config = None /\ cli = None /\ log = <<>> /\ iteration = 0 /\ run_history = <<>>
    /\ log_entries = None
    /\ progress = None /\ progress_file = None /\ pc = "idle" /\ cycle_name = ""
    /\ executing = None
    /\ result = None /\ triggered = <<>> /\ exit_status = "idle"
    /\ shutdown_at_finish = FALSE /\ primaries_started = 0

(***************************************************************************)
(* The run loop (src/main.rs, main)                                        *)
(***************************************************************************)
Init ==
    /\ NoOther
    /\ config \in Configs
    /\ cli \in Clis(config)
    /\ log \in PriorLogs
    /\ log # <<>> => config.cycles[2].min_interval # None   \* only the frequency gate reads it
    /\ shutdown = FALSE
    /\ iteration = 1
    /\ run_history = <<>>
    /\ progress = NewProgress(cli.max_iterations)
    /\ progress_file = None
    /\ pc = "loop"
    /\ cycle_name = ""
    /\ executing = None
    /\ result = None
    /\ log_entries = None
    /\ triggered = <<>>
    /\ exit_status = "running"
    /\ shutdown_at_finish = FALSE
    /\ primaries_started = 0
    /\ NoDriver
    /\ NoCall

\* the task spawned by install_signal_handler
CtrlC ==
    /\ exit_status = "running" \/ dpc \in {"spawn", "reading", "waiting"}
    /\ ~shutdown
    /\ shutdown' = TRUE
    /\ UNCHANGED <<run_vars, driver_vars, fn_vars, other_vars>>

\* ProgressWriter::write (temp file, then rename over the target)
ProgressWrite(p) == progress_file' = Some(p)

\* exit code of the process for each way the run ends: Ok(()) from main,
\* std::process::exit(1) in a gate, an Err returned by main
process_exit_code(status) == IF status = "ok" THEN 0 ELSE 1

\* an Err propagated by `?` out of main
Abort ==
    /\ pc' = "exited"
    /\ exit_status' = "error"

\* the loop check with the iteration bound off by one
LoopCheck_off_by_one ==
    /\ pc = "loop"
    /\ pc' = IF iteration > cli.max_iterations + 1 \/ shutdown THEN "finalize" ELSE "resolve"
    /\ UNCHANGED <<config, cli, log_entries, cycle_name, log, iteration, run_history, progress, progress_file,
                   executing, result, triggered, exit_status, shutdown_at_finish,
                   primaries_started, shutdown, driver_vars, fn_vars, other_vars>>

\* top of `loop`: the iteration bound, then the shutdown flag
LoopCheck ==
    /\ pc = "loop"
    /\ pc' = IF iteration > cli.max_iterations \/ shutdown THEN "finalize" ELSE "resolve"
    /\ UNCHANGED <<config, cli, log_entries, cycle_name, log, iteration, run_history, progress, progress_file,
                   executing, result, triggered, exit_status, shutdown_at_finish,
                   primaries_started, shutdown, driver_vars, fn_vars, other_vars>>

\* resolve_cycle_name, then "Update progress before execution"
ResolveCycle ==
    /\ pc = "resolve"
    /\ \/ \E name \in NameSet :
             /\ IF cli.cycle # None THEN name = cli.cycle[1]
                ELSE get_cycle(config, name) # None   \* select_cycle returned a selection
             /\ cycle_name' = name
             /\ executing' = Some([cycle |-> name, dependent |-> FALSE])
             /\ progress' = [progress EXCEPT !.current_iteration = iteration,
                                             !.current_cycle = name]
             /\ ProgressWrite(progress')
             /\ primaries_started' = primaries_started + 1
             /\ pc' = "exec"
             /\ UNCHANGED exit_status
       \/ /\ cli.cycle = None       \* read_all or select_cycle failed
          /\ Abort
          /\ UNCHANGED <<cycle_name, executing, progress, progress_file, primaries_started, other_vars>>
    /\ UNCHANGED <<config, cli, log_entries, log, iteration, run_history, result, triggered,
                   shutdown_at_finish, shutdown, driver_vars, fn_vars, other_vars>>

\* logger.read_all(): the entries of the log file, or an error
read_all(entries) == {Ok(entries), Err}

\* Result::unwrap_or_default on a list of entries
unwrap_or_default(r) == IF r.ok THEN r.value ELSE <<>>

\* execute_and_log up to the spawn of the agent inside execute_with_display:
\* the log is read for context injection, an error of the read is dropped
BeginExec ==
    /\ pc = "exec"
    /\ \/ /\ \E r \in read_all(log) : log_entries' = Some(unwrap_or_default(r))
          /\ pc' = "running"
          /\ UNCHANGED exit_status
       \/ /\ Abort                  \* "Failed to spawn Claude Code process"
          /\ UNCHANGED log_entries
    /\ UNCHANGED <<config, cli, cycle_name, log, iteration, run_history, progress, progress_file,
                   executing, result, triggered, shutdown_at_finish, primaries_started,
                   shutdown, driver_vars, fn_vars, other_vars>>

\* an append through a file opened for writing from the start, not for appending
append_truncating(entries, outcome) == <<outcome>>

\* an append that leaves the log file as it was
append_lost(entries, outcome) == entries

\* JsonlLogger::append: one more line at the end of the file
append(entries, outcome) == Append(entries, outcome)

\* execute_and_log from the return of execute_with_display: build_outcome,
\* logger.append, *iteration += 1
EndExec ==
    /\ pc = "running"
    /\ \E res \in CycleResults(executing[1].cycle) :
          /\ result' = Some(res)
          /\ \/ /\ log' = append(log, build_outcome(res, iteration))
                /\ iteration' = iteration + 1
                /\ shutdown_at_finish' = shutdown
                /\ pc' = "executed"
                /\ UNCHANGED exit_status
             \/ /\ Abort            \* "Failed to write to JSONL log"
                /\ UNCHANGED <<log, iteration, shutdown_at_finish, other_vars>>
    /\ log_entries' = None
    /\ UNCHANGED <<config, cli, cycle_name, run_history, progress, progress_file, executing,
                   triggered, primaries_started, shutdown, driver_vars, fn_vars, other_vars>>

\* "Update progress after execution": update_progress_after_cycle and write
UpdateProgress ==
    /\ pc = "executed"
    /\ progress' = update_progress_after_cycle(progress, executing[1].cycle, result[1])
    /\ ProgressWrite(progress')
    /\ pc' = "gates"
    /\ UNCHANGED <<config, cli, log_entries, cycle_name, log, iteration, run_history, executing, result, triggered,
                   exit_status, shutdown_at_finish, primaries_started, shutdown,
                   driver_vars, fn_vars, other_vars>>

\* gates that leave the loop and let main return normally
apply_cycle_gates_break ==
    /\ pc = "gates"
    /\ run_history' = Append(run_history, [success |-> result[1].success])
    /\ IF \/ check_denial_gate(unwrap_or(result[1].permission_denial_count, 0),
                               config.max_permission_denials)
          \/ check_run_health(run_history', config.max_consecutive_failures)
       THEN pc' = "finalize"
       ELSE pc' = IF executing[1].dependent THEN "dep_loop" ELSE "check_shutdown"
    /\ UNCHANGED <<config, cli, log_entries, cycle_name, log, iteration, progress, progress_file, executing, result,
                   triggered, exit_status, shutdown_at_finish, primaries_started, shutdown,
                   driver_vars, fn_vars, other_vars>>

\* apply_cycle_gates: record the outcome, denial gate, then health check
apply_cycle_gates ==
    /\ pc = "gates"
    /\ run_history' = Append(run_history, [success |-> result[1].success])
    /\ IF check_denial_gate(unwrap_or(result[1].permission_denial_count, 0),
                            config.max_permission_denials)
       THEN pc' = "exited" /\ exit_status' = "denial_gate"
       ELSE IF check_run_health(run_history', config.max_consecutive_failures)
       THEN pc' = "exited" /\ exit_status' = "health_gate"
       ELSE /\ pc' = IF executing[1].dependent THEN "dep_loop" ELSE "check_shutdown"
            /\ UNCHANGED exit_status
    /\ UNCHANGED <<config, cli, log_entries, cycle_name, log, iteration, progress, progress_file, executing, result,
                   triggered, shutdown_at_finish, primaries_started, shutdown,
                   driver_vars, fn_vars, other_vars>>

\* the main loop without its shutdown check before the dependents
CheckShutdown_ignored ==
    /\ pc = "check_shutdown"
    /\ pc' = "deps"
    /\ UNCHANGED <<config, cli, log_entries, cycle_name, log, iteration, run_history, progress, progress_file,
                   executing, result, triggered, exit_status, shutdown_at_finish,
                   primaries_started, shutdown, driver_vars, fn_vars, other_vars>>

\* "Check shutdown before auto-triggering dependent cycles"
\* a main loop that runs the dependents of a successful primary only
CheckShutdown_after_success ==
    /\ pc = "check_shutdown"
    /\ pc' = IF shutdown THEN "finalize" ELSE IF result[1].success THEN "deps" ELSE "loop"
    /\ UNCHANGED <<config, cli, log_entries, cycle_name, log, iteration, run_history, progress, progress_file,
                   executing, result, triggered, exit_status, shutdown_at_finish,
                   primaries_started, shutdown, driver_vars, fn_vars, other_vars>>

CheckShutdown ==
    /\ pc = "check_shutdown"
    /\ pc' = IF shutdown THEN "finalize" ELSE "deps"
    /\ UNCHANGED <<config, cli, log_entries, cycle_name, log, iteration, run_history, progress, progress_file,
                   executing, result, triggered, exit_status, shutdown_at_finish,
                   primaries_started, shutdown, driver_vars, fn_vars, other_vars>>

\* run_dependent_cycles computing the triggered list from the log as it was
\* before the primary's entry was appended
run_dependent_cycles_stale ==
    /\ pc = "deps"
    /\ \/ /\ triggered' = find_triggered_cycles(config, result[1].cycle_name,
                                                SubSeq(log, 1, Len(log) - 1))
          /\ pc' = "dep_loop"
          /\ UNCHANGED exit_status
       \/ /\ Abort
          /\ UNCHANGED triggered
    /\ UNCHANGED <<config, cli, log_entries, cycle_name, log, iteration, run_history, progress, progress_file,
                   executing, result, shutdown_at_finish, primaries_started, shutdown,
                   driver_vars, fn_vars, other_vars>>

\* run_dependent_cycles: read the log and compute the triggered list
run_dependent_cycles ==
    /\ pc = "deps"
    /\ \/ /\ triggered' = find_triggered_cycles(config, result[1].cycle_name, log)
          /\ pc' = "dep_loop"
          /\ UNCHANGED exit_status
       \/ /\ Abort                  \* "Failed to read log for frequency check"
          /\ UNCHANGED triggered
    /\ UNCHANGED <<config, cli, log_entries, cycle_name, log, iteration, run_history, progress, progress_file,
                   executing, result, shutdown_at_finish, primaries_started, shutdown,
                   driver_vars, fn_vars, other_vars>>

\* a loop over the triggered list that never moves past its first name
NextDependent_repeating ==
    /\ pc = "dep_loop"
    /\ IF triggered = <<>> \/ shutdown
       THEN /\ pc' = "loop"
            /\ UNCHANGED <<progress, progress_file, executing, triggered, other_vars>>
       ELSE /\ progress' = [progress EXCEPT !.current_cycle = Head(triggered)]
            /\ ProgressWrite(progress')
            /\ executing' = Some([cycle |-> Head(triggered), dependent |-> TRUE])
            /\ triggered' = triggered
            /\ pc' = "exec"
    /\ UNCHANGED <<config, cli, log_entries, cycle_name, log, iteration, run_history, result, exit_status,
                   shutdown_at_finish, primaries_started, shutdown, driver_vars, fn_vars, other_vars>>

\* one turn of `for dep_cycle in triggered`, up to the call of execute_and_log;
\* when the loop ends control returns to the top of the main loop
NextDependent ==
    /\ pc = "dep_loop"
    /\ IF triggered = <<>> \/ shutdown
       THEN /\ pc' = "loop"
            /\ UNCHANGED <<progress, progress_file, executing, triggered, other_vars>>
       ELSE /\ progress' = [progress EXCEPT !.current_cycle = Head(triggered)]
            /\ ProgressWrite(progress')
            /\ executing' = Some([cycle |-> Head(triggered), dependent |-> TRUE])
            /\ triggered' = Tail(triggered)
            /\ pc' = "exec"
    /\ UNCHANGED <<config, cli, log_entries, cycle_name, log, iteration, run_history, result, exit_status,
                   shutdown_at_finish, primaries_started, shutdown, driver_vars, fn_vars, other_vars>>

\* finalize_run that does not look at the shutdown flag
finalize_run_completed ==
    /\ pc = "finalize"
    /\ progress' = [progress EXCEPT !.current_status = "completed"]
    /\ ProgressWrite(progress')
    /\ pc' = "finalize_delete"
    /\ UNCHANGED <<config, cli, log_entries, cycle_name, log, iteration, run_history, executing, result, triggered,
                   exit_status, shutdown_at_finish, primaries_started, shutdown,
                   driver_vars, fn_vars, other_vars>>

\* finalize_run: final status and write
finalize_run ==
    /\ pc = "finalize"
    /\ progress' = [progress EXCEPT !.current_status =
                        IF shutdown THEN "stopped" ELSE "completed"]
    /\ ProgressWrite(progress')
    /\ pc' = "finalize_delete"
    /\ UNCHANGED <<config, cli, log_entries, cycle_name, log, iteration, run_history, executing, result, triggered,
                   exit_status, shutdown_at_finish, primaries_started, shutdown,
                   driver_vars, fn_vars, other_vars>>

\* finalize_run: progress_writer.delete(), then main returns Ok(())
FinalizeDelete ==
    /\ pc = "finalize_delete"
    /\ progress_file' = None
    /\ pc' = "exited"
    /\ exit_status' = "ok"
    /\ UNCHANGED <<config, cli, log_entries, cycle_name, log, iteration, run_history, progress, executing, result,
                   triggered, shutdown_at_finish, primaries_started, shutdown,
                   driver_vars, fn_vars, other_vars>>

Next ==
    \/ CtrlC
    \/ LoopCheck
    \/ ResolveCycle
    \/ BeginExec
    \/ EndExec
    \/ UpdateProgress
    \/ apply_cycle_gates
    \/ CheckShutdown
    \/ run_dependent_cycles
    \/ NextDependent
    \/ finalize_run
    \/ FinalizeDelete

Spec == Init /\ [][Next]_vars

\* a step of main itself
RunStep ==
    \/ LoopCheck
    \/ ResolveCycle
    \/ BeginExec
    \/ EndExec
    \/ UpdateProgress
    \/ apply_cycle_gates
    \/ CheckShutdown
    \/ run_dependent_cycles
    \/ NextDependent
    \/ finalize_run
    \/ FinalizeDelete

\* a run that starts on an empty log, with the health gate off or at its
\* highest threshold
InitFresh ==
    /\ Init
    /\ log = <<>>
    /\ config.max_consecutive_failures \in {0, MaxFailures}

\* every agent invocation returns and main goes on after each step
SpecFair == InitFresh /\ [][Next]_vars /\ WF_vars(RunStep)

(***************************************************************************)
(* Stream events and accumulator (src/claude/stream.rs)                    *)
(***************************************************************************)
\* A content block of an assistant message: its "type" (None when the block
\* has no string type), whether it has a string "text", and its is_error
\* (false when missing).
Block(type, text, is_error) == [type |-> type, text |-> text, is_error |-> is_error]

\* A stdout line: blank (empty after trim), invalid (not JSON) or json; for
\* JSON its top-level "type" (None when the value is no object or has no
\* string type) and its message.content (None when missing or no array).
RawLine(kind, type, content) == [kind |-> kind, type |-> type, content |-> content]

\* the line with the given type ("" for a line without one) whose content is
\* one well-formed block of the given type ("" for no content)
Line(type, block, is_error) ==
    RawLine(IF type = "" THEN "invalid" ELSE "json",
            IF type = "" THEN None ELSE Some(type),
            IF block = "" THEN None ELSE Some(<<Block(Some(block), TRUE, is_error)>>))
\* the lines the driver is fed
Lines ==
    {Line("", "", FALSE), Line("system", "", FALSE), Line("result", "", FALSE),
     Line("ping", "", FALSE), Line("assistant", "text", FALSE),
     Line("assistant", "tool_use", FALSE), Line("assistant", "tool_result", TRUE),
     Line("assistant", "tool_result", FALSE)}

\* StreamEvent: the fields the accumulator reads. session_id of a SystemInit,
\* tool_name and input.file_path (Option) of a ToolUse, is_error of a
\* ToolResult and its content: whether it contains "test result" and the
\* number in front of its first " passed" (Option).
StreamEvent(kind, is_error, session_id, tool_name, file_path, test_result, passed) ==
    [kind |-> kind, is_error |-> is_error, session_id |-> session_id, tool_name |-> tool_name,
     file_path |-> file_path, test_result |-> test_result, passed |-> passed]
\* an event of which only the kind and is_error matter
Event(kind, is_error) == StreamEvent(kind, is_error, "s1", "Edit", None, FALSE, None)

\* a parse that passes over a block without a type like over a block of an
\* unknown type
RECURSIVE block_scan_skipping(_, _)
block_scan_skipping(content, i) ==
    IF i > Len(content) THEN None
    ELSE LET block == content[i]
         IN  IF block.type = Some("text") /\ block.text
             THEN Some(Event("AssistantText", FALSE))
             ELSE IF block.type = Some("tool_use") THEN Some(Event("ToolUse", FALSE))
             ELSE IF block.type = Some("tool_result")
                  THEN Some(Event("ToolResult", block.is_error))
             ELSE block_scan_skipping(content, i + 1)

RECURSIVE block_scan(_, _)
\* the for loop of parse_assistant_event, at block i
block_scan(content, i) ==
    IF i > Len(content) THEN None
    ELSE LET block == content[i]
         IN  IF block.type = None THEN None                 \* block.get("type")?.as_str()?
             ELSE IF block.type[1] = "text"
                  THEN IF block.text THEN Some(Event("AssistantText", FALSE))
                       ELSE None                            \* block.get("text")?.as_str()?
             ELSE IF block.type[1] = "tool_use" THEN Some(Event("ToolUse", FALSE))
             ELSE IF block.type[1] = "tool_result"
                  THEN Some(Event("ToolResult", block.is_error))
             ELSE block_scan(content, i + 1)

parse_assistant_event(line) ==
    IF line.content = None THEN None ELSE block_scan(line.content[1], 1)

parse_event(line) ==
    IF line.kind = "blank" THEN None
    ELSE IF line.kind = "invalid" THEN None
    ELSE IF line.type = None THEN None
    ELSE IF line.type[1] = "system" THEN Some(Event("SystemInit", FALSE))
    ELSE IF line.type[1] = "assistant" THEN parse_assistant_event(line)
    ELSE IF line.type[1] = "result" THEN Some(Event("Result", FALSE))
    ELSE Some(Event("Unknown", FALSE))

\* parse_tests_passed on the content of a ToolResult: the number in front of
\* " passed" when the content has one, contains "test result" and the number
\* fits a u32
parse_tests_passed(event) ==
    IF event.passed = None THEN None
    ELSE IF ~event.test_result THEN None
    ELSE IF event.passed[1] > u32_MAX THEN None
    ELSE event.passed

\* StreamAccumulator::new
NewAccumulator ==
    [text_fragments |-> <<>>, tools_used |-> <<>>, tool_errors |-> <<>>,
     result |-> None, session_id |-> None, files_changed |-> <<>>, tests_passed |-> 0]

\* a list of files that takes every path, known or not
record_file_always(files_changed, path) == Append(files_changed, path)

\* the push of a path to files_changed unless the list contains it
record_file(files_changed, path) ==
    IF \E i \in 1..Len(files_changed) : files_changed[i] = path THEN files_changed
    ELSE Append(files_changed, path)

\* StreamAccumulator::process
process(acc, event) ==
    IF event.kind = "SystemInit" THEN [acc EXCEPT !.session_id = Some(event.session_id)]
    ELSE IF event.kind = "AssistantText" THEN [acc EXCEPT !.text_fragments = Append(@, "text")]
    ELSE IF event.kind = "ToolUse"
         THEN [acc EXCEPT !.tools_used = Append(@, event.tool_name),
                          !.files_changed =
                              IF event.tool_name \in {"Edit", "Write"} /\ event.file_path # None
                              THEN record_file(@, event.file_path[1])
                              ELSE @]
    ELSE IF event.kind = "ToolResult" /\ event.is_error
         THEN [acc EXCEPT !.tool_errors = Append(@, "denied")]
    ELSE IF event.kind = "ToolResult"
         THEN LET count == parse_tests_passed(event)
              IN  IF count # None
                  THEN [acc EXCEPT !.tests_passed = saturating_add(@, count[1])]
                  ELSE acc
    ELSE IF event.kind = "Result" THEN [acc EXCEPT !.result = Some(event)]
    ELSE acc

\* Lines of any shape: the content blocks a line can hold and the lines
Blocks ==
    {Block(None, FALSE, FALSE), Block(Some("text"), TRUE, FALSE), Block(Some("text"), FALSE, FALSE),
     Block(Some("tool_use"), FALSE, FALSE), Block(Some("tool_result"), FALSE, TRUE),
     Block(Some("tool_result"), FALSE, FALSE), Block(Some("image"), FALSE, FALSE)}
Contents == {None} \cup {Some(c) : c \in UNION {[1..k -> Blocks] : k \in 0..MaxBlocks}}
RawLines ==
    {RawLine("blank", None, None), RawLine("invalid", None, None)}
      \cup {RawLine("json", t, c) :
              t \in {None, Some("system"), Some("assistant"), Some("result"), Some("ping")},
              c \in Contents}

InitParser ==
    /\ NoOther
    /\ NoRun
    /\ NoDriver
    /\ shutdown = FALSE
    /\ call \in [line : RawLines]
    /\ ret = None

CallParser ==
    /\ ret = None
    /\ ret' = Some(parse_event(call.line))
    /\ UNCHANGED <<call, shutdown, run_vars, driver_vars, other_vars>>

SpecParser == InitParser /\ [][CallParser]_vars

(***************************************************************************)
(* Subprocess driver (src/cycle/executor.rs, run_command_with_display)     *)
(***************************************************************************)
InitDriver ==
    /\ NoOther
    /\ NoRun
    /\ NoCall
    /\ shutdown = FALSE
    /\ dpc = "spawn"
    /\ threshold \in 0..MaxThreshold
    /\ fed = <<>>
    /\ accumulator = None
    /\ consecutive_denials = 0
    /\ child = NoChild
    /\ driver_ret = None

\* tokio_cmd.spawn(): the child starts, or the driver returns the spawn error
Spawn ==
    /\ dpc = "spawn"
    /\ \/ /\ child' = [state |-> "running", code |-> None, kill_sent |-> FALSE]
          /\ accumulator' = Some(NewAccumulator)
          /\ dpc' = "reading"
       \/ /\ dpc' = "failed"
          /\ UNCHANGED <<child, accumulator, other_vars>>
    /\ UNCHANGED <<threshold, fed, consecutive_denials, driver_ret, shutdown, run_vars, fn_vars, other_vars>>

\* the agent process ends by itself
ChildExit ==
    /\ child.state = "running"
    /\ \E code \in {0, 1} : child' = [child EXCEPT !.state = "exited", !.code = Some(code)]
    /\ UNCHANGED <<dpc, threshold, fed, accumulator, consecutive_denials, driver_ret,
                   shutdown, run_vars, fn_vars, other_vars>>

\* child.kill(): SIGKILL ends a running child without an exit code and leaves
\* the status of a child that has already exited
kill(c) ==
    IF c.state = "running" THEN [state |-> "killed", code |-> None, kill_sent |-> TRUE]
    ELSE [c EXCEPT !.kill_sent = TRUE]

\* the breaker waiting for one error more than the threshold
breaker_trips_late(count, limit) == limit > 0 /\ count > limit

\* the circuit breaker's condition after one more error ToolResult
breaker_trips(count, limit) == limit > 0 /\ count >= limit

\* a counter that every event other than an error ToolResult resets
track_consecutive_reset_by_any(count, event) ==
    IF event.kind = "ToolResult" /\ event.is_error THEN count + 1 ELSE 0

\* the match on the event in the read loop: the new value of
\* consecutive_denials
track_consecutive(count, event) ==
    IF event.kind = "ToolResult" /\ event.is_error THEN count + 1
    ELSE IF event.kind \in {"ToolResult", "ToolUse"} THEN 0
    ELSE count

\* one turn of the read loop on a line the child wrote (lines written before
\* the child ended are still delivered)
ReadLine ==
    /\ dpc = "reading"
    /\ Len(fed) < MaxEvents
    /\ \E line \in Lines :
          LET ev == parse_event(line) IN
          IF ev = None
          THEN UNCHANGED <<dpc, fed, accumulator, consecutive_denials, child, other_vars>>
          ELSE /\ fed' = Append(fed, ev[1])
               /\ accumulator' = Some(process(accumulator[1], ev[1]))
               /\ consecutive_denials' = track_consecutive(consecutive_denials, ev[1])
               /\ IF ev[1].kind = "ToolResult" /\ ev[1].is_error
                       /\ breaker_trips(consecutive_denials', threshold)
                  THEN child' = kill(child) /\ dpc' = "waiting"
                  ELSE UNCHANGED <<child, dpc, other_vars>>
    /\ UNCHANGED <<threshold, driver_ret, shutdown, run_vars, fn_vars, other_vars>>

\* read_line returns 0 bytes (the child closed stdout) or fails (unwrap_or(0))
ReadEof ==
    /\ dpc = "reading"
    /\ dpc' = "waiting"
    /\ UNCHANGED <<threshold, fed, accumulator, consecutive_denials, child, driver_ret,
                   shutdown, run_vars, fn_vars, other_vars>>

\* child.wait() and the Ok return of the driver
Wait ==
    /\ dpc = "waiting"
    /\ child.state \in {"exited", "killed"}
    /\ driver_ret' = Some(child.code)
    /\ child' = [child EXCEPT !.state = "reaped"]
    /\ dpc' = "returned"
    /\ UNCHANGED <<threshold, fed, accumulator, consecutive_denials, shutdown, run_vars, fn_vars, other_vars>>

NextDriver == CtrlC \/ Spawn \/ ChildExit \/ ReadLine \/ ReadEof \/ Wait

SpecDriver == InitDriver /\ [][NextDriver]_vars

(***************************************************************************)
(* run_for_result (src/claude/cli.rs), the driver of the step router; the  *)
(* cycle selector's select_cycle (src/cycle/selector.rs) holds the same    *)
(* code up to the parse of the answer.  It shares the driver's variables.  *)
(***************************************************************************)
\* TokioCommand::spawn: the child starts, or `?` returns the spawn error
SpawnForResult ==
    /\ dpc = "spawn"
    /\ \/ /\ child' = [state |-> "running", code |-> None, kill_sent |-> FALSE]
          /\ accumulator' = Some(NewAccumulator)
          /\ dpc' = "reading"
          /\ UNCHANGED driver_ret
       \/ /\ driver_ret' = Some(Err)
          /\ dpc' = "returned"
          /\ UNCHANGED <<child, accumulator>>
    /\ UNCHANGED <<threshold, fed, consecutive_denials, shutdown, run_vars, fn_vars, other_vars>>

\* one turn of `while let Some(line) = lines.next_line().await...?`: the loop
\* breaks on a Result event
NextLine ==
    /\ dpc = "reading"
    /\ Len(fed) < MaxEvents
    /\ \E line \in Lines :
          LET ev == parse_event(line) IN
          IF ev = None
          THEN UNCHANGED <<dpc, fed, accumulator>>
          ELSE /\ fed' = Append(fed, ev[1])
               /\ accumulator' = Some(process(accumulator[1], ev[1]))
               /\ dpc' = IF ev[1].kind = "Result" THEN "waiting" ELSE "reading"
    /\ UNCHANGED <<threshold, consecutive_denials, child, driver_ret, shutdown, run_vars,
                   fn_vars, other_vars>>

\* next_line returns Ok(None): the child closed stdout
NextLineEof ==
    /\ dpc = "reading"
    /\ dpc' = "waiting"
    /\ UNCHANGED <<threshold, fed, accumulator, consecutive_denials, child, driver_ret,
                   shutdown, run_vars, fn_vars, other_vars>>

\* next_line returns Err (a failed read, a line that is not UTF-8): `?`
\* returns the error; the Child is dropped, which neither kills nor reaps it
NextLineErr ==
    /\ dpc = "reading"
    /\ driver_ret' = Some(Err)
    /\ dpc' = "returned"
    /\ UNCHANGED <<threshold, fed, accumulator, consecutive_denials, child,
                   shutdown, run_vars, fn_vars, other_vars>>

\* the result_text of the Result event, which may be empty, or the joined
\* text fragments
result_texts(acc) ==
    IF acc.result # None THEN {"", "Done"}
    ELSE IF acc.text_fragments = <<>> THEN {""} ELSE {"text"}

\* `let _ = child.wait().await`, then the answer or the bail on an empty one
WaitForResult ==
    /\ dpc = "waiting"
    /\ child.state \in {"exited", "killed"}
    /\ child' = [child EXCEPT !.state = "reaped"]
    /\ \E result_text \in result_texts(accumulator[1]) :
          driver_ret' = Some(IF result_text = "" THEN Err ELSE Ok(result_text))
    /\ dpc' = "returned"
    /\ UNCHANGED <<threshold, fed, accumulator, consecutive_denials, shutdown, run_vars,
                   fn_vars, other_vars>>

InitForResult ==
    /\ NoOther
    /\ NoRun
    /\ NoCall
    /\ shutdown = FALSE
    /\ dpc = "spawn"
    /\ threshold = 0
    /\ fed = <<>>
    /\ accumulator = None
    /\ consecutive_denials = 0
    /\ child = NoChild
    /\ driver_ret = None

NextForResult ==
    SpawnForResult \/ ChildExit \/ NextLine \/ NextLineEof \/ NextLineErr \/ WaitForResult

SpecForResult == InitForResult /\ [][NextForResult]_vars

(***************************************************************************)
(* check_run_health as a function of an arbitrary history                  *)
(***************************************************************************)
RunOutcome(success) == [success |-> success]
Histories ==
    UNION {{[i \in 1..k |-> RunOutcome(f[i])] : f \in [1..k -> BOOLEAN]} : k \in 0..MaxHistory}

InitHealth ==
    /\ NoOther
    /\ NoRun
    /\ NoDriver
    /\ shutdown = FALSE
    /\ call \in [history : Histories, max_consecutive_failures : 0..MaxFailures]
    /\ ret = None

CallHealth ==
    /\ ret = None
    /\ ret' = Some(check_run_health(call.history, call.max_consecutive_failures))
    /\ UNCHANGED <<call, shutdown, run_vars, driver_vars, other_vars>>

SpecHealth == InitHealth /\ [][CallHealth]_vars

(***************************************************************************)
(* find_triggered_cycles as a function of configuration and log            *)
(***************************************************************************)
RuleConfigs ==
    {cfg \in [cycles : {<<CycleConfig(CycleNames[1], a1, m1),
                          CycleConfig(CycleNames[2], a2, m2)>> :
                            a1 \in SUBSET NameSet, a2 \in SUBSET NameSet,
                            m1 \in MinIntervals, m2 \in MinIntervals}] : validate(cfg)}

InitRules ==
    /\ NoOther
    /\ NoRun
    /\ NoDriver
    /\ shutdown = FALSE
    /\ call \in [config : RuleConfigs, completed_cycle : NameSet, log : PriorLogs]
    /\ ret = None

CallRules ==
    /\ ret = None
    /\ ret' = Some(find_triggered_cycles(call.config, call.completed_cycle, call.log))
    /\ UNCHANGED <<call, shutdown, run_vars, driver_vars, other_vars>>

SpecRules == InitRules /\ [][CallRules]_vars

(***************************************************************************)
(* The progress file on disk (src/log/progress.rs): ProgressWriter::write  *)
(* and delete against a reader of progress.json.  A file name maps to an   *)
(* inode, an open file keeps its inode, rename replaces the mapping of the *)
(* target in one step.                                                     *)
(***************************************************************************)
\* self.path and the name of the temporary file
path == "progress.json"
\* a temporary name equal to the target: the content is written in place
tmp_path_in_place == path
tmp_path == "progress.json.tmp"
FileNames == {path, "progress.json.tmp"}

\* serde_json::to_string_pretty of the k-th snapshot handed to write, as the
\* sequence of pieces one write system call each puts into the file
serialize(k) == [i \in 1..MaxChunks |-> <<k, i>>]

InitWriter ==
    /\ NoRun /\ NoDriver /\ NoCall /\ NoSteps
    /\ shutdown = FALSE
    /\ fs = [dir |-> [n \in FileNames |-> None], inodes |-> <<>>]
    /\ writer = [pc |-> "idle", snap |-> 0, done |-> 0]
    /\ observer = [pc |-> "idle", fd |-> None, buf |-> <<>>, at_open |-> 0, result |-> None]

\* std::fs::write, first half: File::create opens the temporary name,
\* creating the file or truncating the one that is there
WriteCreate ==
    /\ writer.pc = "idle"
    /\ writer.snap < MaxSnapshots
    /\ writer' = [writer EXCEPT !.pc = "writing", !.snap = @ + 1]
    /\ IF fs.dir[tmp_path] = None
       THEN fs' = [dir |-> [fs.dir EXCEPT ![tmp_path] = Some(Len(fs.inodes) + 1)],
                   inodes |-> Append(fs.inodes, <<>>)]
       ELSE fs' = [fs EXCEPT !.inodes[fs.dir[tmp_path][1]] = <<>>]
    /\ UNCHANGED <<observer, run_vars, shutdown, driver_vars, fn_vars, steps_vars>>

\* std::fs::write, second half: write_all, one piece per step
WriteAll ==
    /\ writer.pc = "writing"
    /\ LET ino == fs.dir[tmp_path][1]
           n == Len(fs.inodes[ino])
       IN  IF n < MaxChunks
           THEN /\ fs' = [fs EXCEPT !.inodes[ino] = Append(@, serialize(writer.snap)[n + 1])]
                /\ UNCHANGED writer
           ELSE /\ writer' = [writer EXCEPT !.pc = "rename"]
                /\ UNCHANGED fs
    /\ UNCHANGED <<observer, run_vars, shutdown, driver_vars, fn_vars, steps_vars>>

\* std::fs::rename(tmp_path, path)
Rename ==
    /\ writer.pc = "rename"
    /\ fs' = IF tmp_path = path THEN fs
             ELSE [fs EXCEPT !.dir = [@ EXCEPT ![path] = fs.dir[tmp_path], ![tmp_path] = None]]
    /\ writer' = [writer EXCEPT !.pc = "idle", !.done = writer.snap]
    /\ UNCHANGED <<observer, run_vars, shutdown, driver_vars, fn_vars, steps_vars>>

\* ProgressWriter::delete: remove_file when the file exists
Delete ==
    /\ writer.pc = "idle"
    /\ writer.done > 0
    /\ fs' = [fs EXCEPT !.dir[path] = None]
    /\ writer' = [writer EXCEPT !.pc = "deleted"]
    /\ UNCHANGED <<observer, run_vars, shutdown, driver_vars, fn_vars, steps_vars>>

\* what a read of progress.json returns
NoFile == [found |-> FALSE, content |-> <<>>]
FileContent(c) == [found |-> TRUE, content |-> c]

\* the reader opens progress.json, or finds no file
ObserverOpen ==
    /\ observer.pc = "idle"
    /\ IF fs.dir[path] = None
       THEN observer' = [observer EXCEPT !.result = Some(NoFile), !.at_open = writer.done]
       ELSE observer' = [pc |-> "reading", fd |-> fs.dir[path], buf |-> <<>>,
                         at_open |-> writer.done, result |-> None]
    /\ UNCHANGED <<fs, writer, run_vars, shutdown, driver_vars, fn_vars, steps_vars>>

\* the reader reads the next piece of the file it holds open, or reaches its end
ObserverRead ==
    /\ observer.pc = "reading"
    /\ LET content == fs.inodes[observer.fd[1]]
           n == Len(observer.buf)
       IN  IF n < Len(content)
           THEN observer' = [observer EXCEPT !.buf = Append(@, content[n + 1])]
           ELSE observer' = [observer EXCEPT !.pc = "idle", !.fd = None, !.result = Some(FileContent(observer.buf))]
    /\ UNCHANGED <<fs, writer, run_vars, shutdown, driver_vars, fn_vars, steps_vars>>

NextWriter == WriteCreate \/ WriteAll \/ Rename \/ Delete \/ ObserverOpen \/ ObserverRead

SpecWriter == InitWriter /\ [][NextWriter]_vars

(***************************************************************************)
(* Multi-step cycle execution: CycleExecutor::execute_steps                *)
(* (src/cycle/executor.rs) with the SessionManager (src/claude/session.rs) *)
(* and the command builder (src/claude/cli.rs).  Prompts stand for the     *)
(* context-injected step prompt; permissions, turns, cost and stderr are   *)
(* not represented.                                                        *)
(***************************************************************************)

default_max_visits == 3

StepNames == <<"plan", "implement", "plan-review", "verify", "polish">>
SessionTags == {"architect", "coder"}
SessionIds == {"A", "B"}

StepConfig(name, session, router, max_visits) ==
    [name |-> name, session |-> session, prompt |-> name, router |-> router,
     max_visits |-> max_visits]

\* router and max_visits of the steps: the defaults, or LLM routing with a limit
StepLimits ==
    {[router |-> "sequential", max_visits |-> default_max_visits]}
        \cup {[router |-> "llm", max_visits |-> v] : v \in {0, MaxVisits}}

\* session tags of n steps; tags are names, so the first tag used is "architect"
TagLists(n) ==
    {f \in [1..n -> {None} \cup {Some(t) : t \in SessionTags}] :
        \A i \in 1..n : f[i] = Some("coder") => \E j \in 1..(i - 1) : f[j] = Some("architect")}

\* cycle.steps of a multi-step cycle: at least one step, unique names
StepLists ==
    UNION {{[i \in 1..n |-> StepConfig(StepNames[i], f[i], lim.router, lim.max_visits)] :
               f \in TagLists(n), lim \in StepLimits} : n \in 1..MaxSteps}

\* what the accumulator of one step holds besides the session id
StepMetrics ==
    {[result |-> None, files_changed |-> <<"a.rs">>, tests_passed |-> 0, duration_secs |-> 1],
     [result |-> Some([result_text |-> "done", denials |-> u32_MAX - 1]),
      files_changed |-> <<"b.rs", "a.rs">>, tests_passed |-> u32_MAX - 1, duration_secs |-> 2]}

\* Ok((accumulator, stderr, exit_code, duration_secs)) of run_command_with_display
\* for a step; the session id of a step without a session tag is read by
\* nobody and is not varied
StepOutputs(step) ==
    {[exit_code |-> e, session_id |-> sid, result |-> m.result,
      files_changed |-> m.files_changed, tests_passed |-> m.tests_passed,
      duration_secs |-> m.duration_secs] :
        e \in ExitCodes \cup {None},
        sid \in IF step.session = None THEN {Some("A")}
                ELSE {None} \cup {Some(i) : i \in SessionIds},
        m \in StepMetrics}

\* a manager that outlives the execution that created it
SessionManager_kept == IF session_mgr = None THEN [t \in SessionTags |-> None] ELSE session_mgr
SessionManager_new == [t \in SessionTags |-> None]

\* a register that keeps the first id of a tag
register_first_wins(mgr, tag, session_id) ==
    IF mgr[tag] = None THEN [mgr EXCEPT ![tag] = Some(session_id)] ELSE mgr
register(mgr, tag, session_id) == [mgr EXCEPT ![tag] = Some(session_id)]

get_session_id(mgr, tag) == mgr[tag]

resume_args(mgr, session_tag) ==
    IF session_tag = None THEN <<>>
    ELSE IF get_session_id(mgr, session_tag[1]) = None THEN <<>>
    ELSE <<"--resume", get_session_id(mgr, session_tag[1])[1]>>

\* the arguments build_command_with_options gives to `claude`
build_command_with_session(prompt, args) ==
    args \o <<"-p", prompt, "--verbose", "--output-format", "stream-json">>

contains(files, file) == \E i \in 1..Len(files) : files[i] = file

\* `for file in &accumulator.files_changed`: push the files not yet in the list
RECURSIVE extend_dedup(_, _)
extend_dedup(all_files_changed, files) ==
    IF files = <<>> THEN all_files_changed
    ELSE extend_dedup(IF contains(all_files_changed, Head(files)) THEN all_files_changed
                      ELSE Append(all_files_changed, Head(files)),
                      Tail(files))

NewTotals ==
    [total_duration_secs |-> 0, total_denials |-> 0, all_files_changed |-> <<>>,
     total_tests_passed |-> 0, last_result_text |-> None, last_exit_code |-> None]

\* "Aggregate step results"
aggregate(t, out) ==
    [total_duration_secs |-> t.total_duration_secs + out.duration_secs,
     total_denials |-> IF out.result = None THEN t.total_denials
                       ELSE saturating_add(t.total_denials, out.result[1].denials),
     all_files_changed |-> extend_dedup(t.all_files_changed, out.files_changed),
     total_tests_passed |-> saturating_add(t.total_tests_passed, out.tests_passed),
     last_result_text |-> IF out.result = None THEN t.last_result_text
                          ELSE Some(out.result[1].result_text),
     last_exit_code |-> out.exit_code]

\* the CycleResult literal at the end of execute_steps
steps_cycle_result(name, t) ==
    [cycle_name |-> name,
     success |-> (t.last_exit_code = Some(0)),
     exit_code |-> t.last_exit_code,
     duration_secs |-> t.total_duration_secs,
     result_text |-> t.last_result_text,
     permission_denial_count |-> IF t.total_denials > 0 THEN Some(t.total_denials) ELSE None,
     files_changed |-> t.all_files_changed,
     tests_passed |-> t.total_tests_passed]


InitSteps ==
    /\ NoRun /\ NoDriver /\ NoCall /\ NoFiles
    /\ shutdown = FALSE
    /\ steps \in StepLists
    /\ spc = "call"
    /\ step_index = 0
    /\ session_mgr = None
    /\ totals = None
    /\ trace = <<>>
    /\ steps_ret = None
    /\ execs = [before |-> {}, now |-> {}]

\* entry of execute_steps for one cycle execution: a new SessionManager and
\* zeroed aggregates
StartExecution ==
    /\ spc = "call"
    /\ session_mgr' = SessionManager_new
    /\ totals' = NewTotals
    /\ step_index' = 1
    /\ trace' = <<>>
    /\ steps_ret' = None
    /\ execs' = [before |-> execs.now, now |-> execs.now]
    /\ spc' = "loop"
    /\ UNCHANGED <<steps, run_vars, shutdown, driver_vars, fn_vars, file_vars>>

\* a killed child counts as a success of the step
fail_fast_on_code(exit_code) == exit_code # None /\ exit_code # Some(0)
\* "Fail-fast: stop if this step failed"
fail_fast(exit_code) == exit_code # Some(0)

\* an iterator that starts over after the last step
next_step_wrapping(index, total) == IF index = total THEN 1 ELSE index + 1
\* the iterator of `for step in &cycle.steps` moving on
next_step(index, total) == index + 1

\* one turn of `for step in &cycle.steps`: build the command, run it, register
\* the session id, aggregate, and break on a failed step
ExecuteStep ==
    /\ spc = "loop"
    /\ step_index <= Len(steps)
    /\ LET step == steps[step_index]
           cmd == build_command_with_session(step.prompt, resume_args(session_mgr, step.session))
       IN  \E out \in StepOutputs(step) :
              LET registers == step.session # None /\ out.session_id # None
              IN  /\ session_mgr' = IF registers
                                     THEN register(session_mgr, step.session[1], out.session_id[1])
                                     ELSE session_mgr
                  /\ execs' = [execs EXCEPT !.now = IF registers THEN @ \cup {step.session[1]}
                                                    ELSE @]
                  /\ totals' = aggregate(totals, out)
                  /\ trace' = Append(trace, [index |-> step_index, cmd |-> cmd, out |-> out])
                  /\ IF fail_fast(out.exit_code)
                     THEN spc' = "return" /\ UNCHANGED step_index
                     ELSE spc' = "loop" /\ step_index' = next_step(step_index, Len(steps))
    /\ UNCHANGED <<steps, steps_ret, run_vars, shutdown, driver_vars, fn_vars, file_vars>>

\* run_command_with_display returned Err (the agent could not be spawned): `?`
StepError ==
    /\ spc = "loop"
    /\ step_index <= Len(steps)
    /\ steps_ret' = Some(Err)
    /\ spc' = "call"
    /\ UNCHANGED <<steps, step_index, session_mgr, totals, trace, execs,
                   run_vars, shutdown, driver_vars, fn_vars, file_vars>>

\* after the loop: Ok(CycleResult { .. })
ReturnResult ==
    /\ spc = "return" \/ (spc = "loop" /\ step_index > Len(steps))
    /\ steps_ret' = Some(Ok(steps_cycle_result(CycleNames[1], totals)))
    /\ spc' = "call"
    /\ UNCHANGED <<steps, step_index, session_mgr, totals, trace, execs,
                   run_vars, shutdown, driver_vars, fn_vars, file_vars>>

NextSteps == StartExecution \/ ExecuteStep \/ StepError \/ ReturnResult

SpecSteps == InitSteps /\ [][NextSteps]_vars

\* cycle.steps with a router and a max_visits of its own for every step, and
\* no session tags
RoutedStepLists ==
    UNION {{[i \in 1..n |-> StepConfig(StepNames[i], None, lim[i].router, lim[i].max_visits)] :
               lim \in [1..n -> StepLimits]} : n \in 1..MaxSteps}

InitRouted ==
    /\ NoRun /\ NoDriver /\ NoCall /\ NoFiles
    /\ shutdown = FALSE
    /\ steps \in RoutedStepLists
    /\ spc = "call"
    /\ step_index = 0
    /\ session_mgr = None
    /\ totals = None
    /\ trace = <<>>
    /\ steps_ret = None
    /\ execs = [before |-> {}, now |-> {}]

\* every agent invocation returns (with an output or an error) and
\* execute_steps goes on after it
SpecStepsFair ==
    /\ InitRouted
    /\ [][NextSteps]_vars
    /\ WF_vars(ExecuteStep \/ StepError)
    /\ WF_vars(ReturnResult)

(***************************************************************************)
(* Cycle selector (src/cycle/selector.rs)                                  *)
(***************************************************************************)
\* Text is a sequence of letters; the punctuation of a line (braces, quotes,
\* blanks) is not a letter and separates the pieces of text of the line.
Letters == {"a", "b"}
Words == UNION {[1..k -> Letters] : k \in 1..MaxWordLen}
SelectorNames == {<<"a">>, <<"b">>, <<"a", "b">>}

\* a line that serde_json parses as an object: its "cycle" and "reason"
\* fields, None when the field is missing or is not a string
JsonLine(cycle, reason) == [json |-> TRUE, cycle |-> cycle, reason |-> reason, text |-> <<>>]
\* any other line (plain text, or braces around something that is not JSON)
TextLine(text) == [json |-> FALSE, cycle |-> None, reason |-> None, text |-> text]
SelectorLines ==
    {JsonLine(c, r) : c \in {None} \cup {Some(w) : w \in Words},
                      r \in {None, Some(<<"b">>)}}
      \cup {TextLine(t) : t \in {<<>>} \cup Words}
Responses == UNION {[1..k -> SelectorLines] : k \in 0..MaxLines}

SelectorConfigs ==
    {cfg \in [cycles : {<<CycleConfig(n, {}, None)>> : n \in SelectorNames}
                          \cup {<<CycleConfig(n, {}, None), CycleConfig(m, {}, None)>> :
                                  n \in SelectorNames, m \in SelectorNames}] : validate(cfg)}

\* str::contains on one piece of text
str_contains(text, pattern) ==
    \E i \in 1..(Len(text) - Len(pattern) + 1) :
        SubSeq(text, i, i + Len(pattern) - 1) = pattern

\* the pieces of text of a line as the response holds them
pieces(line) ==
    IF line.json
    THEN (IF line.cycle = None THEN {} ELSE {line.cycle[1]})
            \cup (IF line.reason = None THEN {} ELSE {line.reason[1]})
    ELSE {line.text}

\* response.contains(&cycle.name)
response_contains(response, name) ==
    \E i \in 1..Len(response) : \E t \in pieces(response[i]) : str_contains(t, name)

CycleSelection(cycle, reason) == [cycle |-> cycle, reason |-> reason]

RECURSIVE json_scan(_, _, _)
\* the first loop of parse_selection, at line i
json_scan(response, cfg, i) ==
    IF i > Len(response) THEN None
    ELSE LET line == response[i]
         IN  IF line.json /\ line.cycle # None /\ line.reason # None
                  /\ get_cycle(cfg, line.cycle[1]) # None
             THEN Some(CycleSelection(line.cycle[1], line.reason[1]))
             ELSE json_scan(response, cfg, i + 1)

RECURSIVE text_scan(_, _, _)
\* the fallback loop of parse_selection, at cycle i of the configuration
text_scan(response, cfg, i) ==
    IF i > Len(cfg.cycles) THEN None
    ELSE IF response_contains(response, cfg.cycles[i].name)
         THEN Some(CycleSelection(cfg.cycles[i].name, "Extracted from response text"))
    ELSE text_scan(response, cfg, i + 1)

\* a parse that takes the cycle of the first JSON line as it is
parse_selection_unvalidated(response, cfg) ==
    LET hits == {i \in 1..Len(response) :
                    response[i].json /\ response[i].cycle # None /\ response[i].reason # None}
        first == CHOOSE i \in hits : \A j \in hits : i <= j
    IN  IF hits # {}
        THEN Some(CycleSelection(response[first].cycle[1], response[first].reason[1]))
        ELSE text_scan(response, cfg, 1)

parse_selection(response, cfg) ==
    LET selection == json_scan(response, cfg, 1)
    IN  IF selection # None THEN selection ELSE text_scan(response, cfg, 1)

\* select_cycle from the text of the agent's answer on: an empty answer and an
\* answer without a selection are errors
select_cycle(cfg, result_text) ==
    IF result_text = <<>> THEN Err
    ELSE LET selection == parse_selection(result_text, cfg)
         IN  IF selection = None THEN Err ELSE Ok(selection[1])

InitSelector ==
    /\ NoOther
    /\ NoRun
    /\ NoDriver
    /\ shutdown = FALSE
    /\ call \in [config : SelectorConfigs, response : Responses]
    /\ ret = None

CallSelector ==
    /\ ret = None
    /\ ret' = Some(select_cycle(call.config, call.response))
    /\ UNCHANGED <<call, shutdown, run_vars, driver_vars, other_vars>>

SpecSelector == InitSelector /\ [][CallSelector]_vars

(***************************************************************************)
(* The accumulator fed any events (src/claude/stream.rs)                   *)
(***************************************************************************)
AccEvents ==
    {StreamEvent("SystemInit", FALSE, id, "", None, FALSE, None) : id \in SessionIds}
      \cup {StreamEvent("ToolUse", FALSE, "", "Edit", Some("a.rs"), FALSE, None),
            StreamEvent("ToolUse", FALSE, "", "Write", Some("b.rs"), FALSE, None),
            StreamEvent("ToolUse", FALSE, "", "Edit", None, FALSE, None),
            StreamEvent("ToolUse", FALSE, "", "Bash", Some("c.rs"), FALSE, None)}
      \cup {StreamEvent("ToolResult", FALSE, "", "", None, TRUE, Some(u32_MAX - 1)),
            StreamEvent("ToolResult", FALSE, "", "", None, TRUE, Some(1)),
            StreamEvent("ToolResult", FALSE, "", "", None, TRUE, Some(u32_MAX + 1)),
            StreamEvent("ToolResult", FALSE, "", "", None, FALSE, Some(1)),
            StreamEvent("ToolResult", FALSE, "", "", None, TRUE, None),
            StreamEvent("ToolResult", TRUE, "", "", None, TRUE, Some(1))}
      \cup {StreamEvent("AssistantText", FALSE, "", "", None, FALSE, None),
            StreamEvent("Result", FALSE, "", "", None, FALSE, None)}

InitAccumulator ==
    /\ NoOther
    /\ NoRun
    /\ NoCall
    /\ shutdown = FALSE
    /\ dpc = "idle" /\ threshold = 0 /\ consecutive_denials = 0
    /\ child = NoChild /\ driver_ret = None
    /\ fed = <<>>
    /\ accumulator = Some(NewAccumulator)

\* accumulator.process(&event)
Feed ==
    /\ dpc = "idle"
    /\ accumulator # None
    /\ Len(fed) < MaxEvents
    /\ \E event \in AccEvents :
          /\ fed' = Append(fed, event)
          /\ accumulator' = Some(process(accumulator[1], event))
    /\ UNCHANGED <<dpc, threshold, consecutive_denials, child, driver_ret,
                   shutdown, run_vars, fn_vars, other_vars>>

SpecAccumulator == InitAccumulator /\ [][Feed]_vars

(***************************************************************************)
(* Permission resolver (src/claude/permissions.rs)                         *)
(***************************************************************************)
PermissionTokens == {"Read", "Bash(cargo *)", "Edit(./src/**)"}
PermissionLists == UNION {[1..k -> PermissionTokens] : k \in 0..MaxPerms}

RECURSIVE push_unseen(_, _, _)
\* `for perm in perms { if seen.insert(perm) { result.push(perm) } }` from
\* index i on; acc holds seen and result
push_unseen(acc, perms, i) ==
    IF i > Len(perms) THEN acc
    ELSE IF perms[i] \in acc.seen THEN push_unseen(acc, perms, i + 1)
    ELSE push_unseen([seen |-> acc.seen \cup {perms[i]}, result |-> Append(acc.result, perms[i])],
                     perms, i + 1)

\* a merge that keeps every token of both lists
resolve_permissions_concat(global, cycle) == global.permissions \o cycle.permissions

resolve_permissions(global, cycle) ==
    LET start == [seen |-> {}, result |-> <<>>]
        after_global == push_unseen(start, global.permissions, 1)
    IN  push_unseen(after_global, cycle.permissions, 1).result

\* the resolver for a step of a multi-step cycle: the cycle's resolved list,
\* then the step's additions not already present
resolve_step_permissions(global, cycle, step) ==
    LET base == resolve_permissions(global, cycle)
        seen == {base[i] : i \in 1..Len(base)}
    IN  push_unseen([seen |-> seen, result |-> base], step.permissions, 1).result

InitPermissions ==
    /\ NoOther
    /\ NoRun
    /\ NoDriver
    /\ shutdown = FALSE
    /\ call \in [global : [permissions : PermissionLists],
                  cycle : [permissions : PermissionLists],
                  step : [permissions : PermissionLists]]
    /\ ret = None

\* the executor resolving the permissions of a single-step cycle and of a step
CallPermissions ==
    /\ ret = None
    /\ ret' = Some([cycle |-> resolve_permissions(call.global, call.cycle),
                    step |-> resolve_step_permissions(call.global, call.cycle, call.step)])
    /\ UNCHANGED <<call, shutdown, run_vars, driver_vars, other_vars>>

SpecPermissions == InitPermissions /\ [][CallPermissions]_vars

(***************************************************************************)
(* Step router (src/cycle/router.rs)                                       *)
(***************************************************************************)
\* Text is a sequence of letters as for the selector; a fixed message is a
\* text of one piece.
Text(message) == <<message>>
DONE == <<"D", "O", "N", "E">>
RouterNames == {<<"a">>, <<"b">>, <<"a", "b">>}
RouterWords == RouterNames \cup {<<"b", "a">>, DONE, <<"d", "o", "n", "e">>}

to_ascii_lowercase(ch) ==
    CASE ch = "D" -> "d" [] ch = "O" -> "o" [] ch = "N" -> "n" [] ch = "E" -> "e" [] OTHER -> ch
eq_ignore_ascii_case(a, b) ==
    /\ Len(a) = Len(b)
    /\ \A i \in 1..Len(a) : to_ascii_lowercase(a[i]) = to_ascii_lowercase(b[i])

\* a line that serde_json parses as an object: its "next" and "reason"
\* fields, None when the field is missing or is not a string
RouterJson(next, reason) == [json |-> TRUE, next |-> next, reason |-> reason, text |-> <<>>]
\* any other line
RouterText(text) == [json |-> FALSE, next |-> None, reason |-> None, text |-> text]
RouterLines ==
    {RouterJson(n, r) : n \in {None} \cup {Some(w) : w \in RouterWords},
                        r \in {None, Some(<<"b">>)}}
      \cup {RouterText(t) : t \in {<<>>} \cup RouterWords}
RouterResponses == UNION {[1..k -> RouterLines] : k \in 0..MaxRouterLines}

RouterStepNames == {<<<<"a">>>>, <<<<"a">>, <<"b">>>>, <<<<"a", "b">>, <<"a">>>>, <<<<"b">>, <<"a", "b">>>>}
\* all_steps: every step with the router of the completed step and a
\* max_visits of its own
RouterSteps ==
    UNION {{[i \in 1..Len(names) |-> StepConfig(names[i], None, router, mv[i])] :
               mv \in [1..Len(names) -> {0, MaxVisits}], router \in {"sequential", "llm"}} :
           names \in RouterStepNames}

GoTo(step_name, reason) == [kind |-> "GoTo", step_name |-> step_name, reason |-> reason]
Done(reason) == [kind |-> "Done", reason |-> reason]

\* VisitTracker::count and would_exceed; the tracker maps names to counts
count(visit_tracker, step_name) ==
    IF step_name \in DOMAIN visit_tracker THEN visit_tracker[step_name] ELSE 0
would_exceed(visit_tracker, step_name, max_visits) == count(visit_tracker, step_name) >= max_visits

\* indices count from 1 here and from 0 in the source
route_sequential(current_step_index, total_steps) ==
    IF current_step_index + 1 < total_steps + 1 THEN Some(current_step_index + 1) ELSE None

router_pieces(line) ==
    IF line.json
    THEN (IF line.next = None THEN {} ELSE {line.next[1]})
            \cup (IF line.reason = None THEN {} ELSE {line.reason[1]})
    ELSE {line.text}

\* response.contains(pattern)
router_contains(response, pattern) ==
    \E i \in 1..Len(response) : \E t \in router_pieces(response[i]) : str_contains(t, pattern)

slice_contains(available_steps, name) ==
    \E i \in 1..Len(available_steps) : available_steps[i] = name

RECURSIVE router_json_scan(_, _, _)
\* the first loop of parse_router_response, at line i
router_json_scan(response, available_steps, i) ==
    IF i > Len(response) THEN None
    ELSE LET line == response[i]
         IN  IF line.json /\ line.next # None /\ line.reason # None
                  /\ eq_ignore_ascii_case(line.next[1], DONE)
             THEN Some(Done(line.reason[1]))
             ELSE IF line.json /\ line.next # None /\ line.reason # None
                       /\ slice_contains(available_steps, line.next[1])
             THEN Some(GoTo(line.next[1], line.reason[1]))
             ELSE router_json_scan(response, available_steps, i + 1)

RECURSIVE router_text_scan(_, _, _)
\* the last loop of parse_router_response, at available step i
router_text_scan(response, available_steps, i) ==
    IF i > Len(available_steps) THEN None
    ELSE IF router_contains(response, available_steps[i])
         THEN Some(GoTo(available_steps[i], Text("Extracted from response text (JSON parse failed)")))
    ELSE router_text_scan(response, available_steps, i + 1)

parse_router_response(response, available_steps) ==
    LET decision == router_json_scan(response, available_steps, 1)
    IN  IF decision # None THEN decision
        ELSE IF router_contains(response, DONE)
             THEN Some(Done(Text("Extracted from response text (JSON parse failed)")))
        ELSE router_text_scan(response, available_steps, 1)

\* route_with_llm from the answer of run_for_result on: an empty answer and
\* an answer without a decision are errors
route_with_llm(response, available_steps) ==
    IF response = <<>> THEN Err
    ELSE LET decision == parse_router_response(response, available_steps)
         IN  IF decision = None THEN Err ELSE Ok(decision[1])

\* the names of all steps, whatever their visit counts
available_unfiltered(all_steps, visit_tracker) == [i \in 1..Len(all_steps) |-> all_steps[i].name]

\* `available`: the names of the steps a visit would not take over max_visits
available(all_steps, visit_tracker) ==
    LET eligible == SelectSeq(all_steps,
                              LAMBDA s : ~would_exceed(visit_tracker, s.name, s.max_visits))
    IN  [i \in 1..Len(eligible) |-> eligible[i].name]

\* determine_next_step; response is what the agent answers if it is invoked
determine_next_step(completed_step, completed_step_index, all_steps, visit_tracker, response) ==
    IF completed_step.router = "sequential"
    THEN LET next_idx == route_sequential(completed_step_index, Len(all_steps))
         IN  [invoked |-> FALSE,
              decision |-> Ok(IF next_idx = None THEN None
                              ELSE Some(GoTo(all_steps[next_idx[1]].name,
                                             Text("Sequential progression"))))]
    ELSE IF available(all_steps, visit_tracker) = <<>>
         THEN [invoked |-> FALSE,
               decision |-> Ok(Some(Done(Text("All steps have reached their max_visits limit"))))]
    ELSE LET routed == route_with_llm(response, available(all_steps, visit_tracker))
         IN  [invoked |-> TRUE,
              decision |-> IF routed.ok THEN Ok(Some(routed.value)) ELSE Err]

InitRouter ==
    /\ NoOther
    /\ NoRun
    /\ NoDriver
    /\ shutdown = FALSE
    /\ \E all_steps \in RouterSteps :
          \E index \in 1..Len(all_steps) :
             \E visit_tracker \in [{all_steps[i].name : i \in 1..Len(all_steps)} -> 0..MaxVisits] :
                call = [all_steps |-> all_steps, completed_step_index |-> index,
                        visit_tracker |-> visit_tracker]
    /\ ret = None

\* one call of determine_next_step after a step completed; the agent answers
\* with any response
CallRouter ==
    /\ ret = None
    /\ \E response \in RouterResponses :
          LET r == determine_next_step(call.all_steps[call.completed_step_index],
                                       call.completed_step_index, call.all_steps,
                                       call.visit_tracker, response)
          IN  ret' = Some([invoked |-> r.invoked, decision |-> r.decision,
                           response |-> IF r.invoked THEN Some(response) ELSE None])
    /\ UNCHANGED <<call, shutdown, run_vars, driver_vars, other_vars>>

SpecRouter == InitRouter /\ [][CallRouter]_vars

(***************************************************************************)
(* Claims about the subprocess driver (checked under SpecDriver)           *)
(***************************************************************************)
IsError(e) == e.kind = "ToolResult" /\ e.is_error
IsReset(e) == e.kind = "ToolUse" \/ (e.kind = "ToolResult" /\ ~e.is_error)

RECURSIVE TrailingErrors(_)
\* number of error ToolResults at the end of an event sequence that no ToolUse
\* or successful ToolResult follows
TrailingErrors(evs) ==
    IF evs = <<>> THEN 0
    ELSE LET last == evs[Len(evs)]
             rest == SubSeq(evs, 1, Len(evs) - 1)
         IN  IF IsError(last) THEN 1 + TrailingErrors(rest)
             ELSE IF IsReset(last) THEN 0
             ELSE TrailingErrors(rest)

CountKind(evs, P(_)) == Cardinality({i \in 1..Len(evs) : P(evs[i])})
IsText(e) == e.kind = "AssistantText"

\* C1: with a threshold > 0 the driver kills the child and stops reading as
\* soon as the consecutive error ToolResults reach the threshold, so the run of
\* errors reaches the threshold at most at the last event fed to the
\* accumulator and the accumulator holds exactly the events fed; the driver
\* kills the child only then, and never with threshold 0.
C1_CircuitBreaker ==
    dpc \in {"reading", "waiting", "returned"} =>
        /\ \A k \in 1..(Len(fed) - 1) :
              ~(threshold > 0 /\ TrailingErrors(SubSeq(fed, 1, k)) >= threshold)
        /\ (threshold > 0 /\ TrailingErrors(fed) >= threshold)
              => (child.kill_sent /\ dpc # "reading")
        /\ child.kill_sent => (threshold > 0 /\ TrailingErrors(fed) >= threshold)
        /\ Len(accumulator[1].tool_errors) = CountKind(fed, IsError)
        /\ Len(accumulator[1].text_fragments) = CountKind(fed, IsText)

\* threshold 3 and ToolUse, err, err, err: the child is killed while it was
\* still running, three tool_errors, no text fragment
C1_Witness ==
    /\ threshold = 3
    /\ fed = <<Event("ToolUse", FALSE), Event("ToolResult", TRUE),
               Event("ToolResult", TRUE), Event("ToolResult", TRUE)>>
    /\ child.kill_sent
    /\ driver_ret = Some(None)
    /\ dpc = "returned"
    /\ Len(accumulator[1].tool_errors) = 3
    /\ accumulator[1].text_fragments = <<>>

\* C2: once the shutdown flag is set the driver feeds no further event to the
\* accumulator (it kills the child and returns at the next event boundary).
C2_DriverStopsOnShutdown ==
    [][(shutdown /\ dpc = "reading") => (fed' = fed /\ accumulator' = accumulator)]_vars

(***************************************************************************)
(* Claims about check_run_health (checked under SpecHealth)                *)
(***************************************************************************)
\* the history ends with at least n failures
EndsWithFailures(h, n) ==
    /\ Len(h) >= n
    /\ \A i \in (Len(h) - n + 1)..Len(h) : ~h[i].success

HasEntry(entries, name) == \E i \in 1..Len(entries) : entries[i].cycle = name
LastEntry(entries, name) ==
    CHOOSE i \in 1..Len(entries) :
        /\ entries[i].cycle = name
        /\ \A j \in (i + 1)..Len(entries) : entries[j].cycle # name
\* number of log entries after the most recent entry for the cycle
EntriesSince(entries, name) == Len(entries) - LastEntry(entries, name)

GatePasses(c, entries) ==
    \/ c.min_interval = None
    \/ c.min_interval = Some(0)
    \/ ~HasEntry(entries, c.name)
    \/ EntriesSince(entries, c.name) >= c.min_interval[1]

IndexOf(cfg, name) == CHOOSE i \in 1..Len(cfg.cycles) : cfg.cycles[i].name = name

\* C5: find_triggered_cycles returns, in declaration order, exactly the cycles
\* whose `after` contains the completed cycle and whose frequency gate passes.
C5_TriggeredCycles ==
    ret # None =>
        LET out == ret[1]
            cfg == call.config
        IN  /\ \A i \in 1..Len(cfg.cycles) :
                  (\E j \in 1..Len(out) : out[j] = cfg.cycles[i].name)
                      <=> (/\ call.completed_cycle \in cfg.cycles[i].after
                           /\ GatePasses(cfg.cycles[i], call.log))
            /\ \A j \in 1..Len(out) : \E i \in 1..Len(cfg.cycles) : out[j] = cfg.cycles[i].name
            /\ \A j1, j2 \in 1..Len(out) :
                  j1 < j2 => IndexOf(cfg, out[j1]) < IndexOf(cfg, out[j2])

\* both cycles fire, the second exactly at its min_interval (boundary)
C5_Witness ==
    /\ ret = Some(<<CycleNames[1], CycleNames[2]>>)
    /\ call.config.cycles[2].min_interval = Some(2)
    /\ HasEntry(call.log, CycleNames[2])
    /\ EntriesSince(call.log, CycleNames[2]) = 2

(***************************************************************************)
(* Claims about the run loop (checked under Spec)                          *)
(***************************************************************************)
\* C4: the gate step after an execution ends the run through the denial gate,
\* with a non-success exit code, iff the execution's denial count is present
\* and strictly greater than max_permission_denials.
C4_DenialGate ==
    [][(pc = "gates" /\ pc' # "gates") =>
          /\ (exit_status' = "denial_gate")
                <=> (/\ result[1].permission_denial_count # None
                     /\ result[1].permission_denial_count[1] > config.max_permission_denials)
          /\ exit_status' = "denial_gate" =>
                (pc' = "exited" /\ process_exit_code(exit_status') # 0)]_vars

\* a dependent execution with one denial more than the threshold ends the run
C4_Witness ==
    /\ exit_status = "denial_gate"
    /\ executing[1].dependent
    /\ result[1].permission_denial_count = Some(config.max_permission_denials + 1)

\* the dependents executed so far in the current iteration of the main loop:
\* every execution adds one to the counter, and progress.current_iteration
\* holds the counter as it was when the primary started
DependentsDone == iteration - 1 - progress.current_iteration
\* the log as run_dependent_cycles read it
LogAtTrigger == SubSeq(log, 1, Len(log) - DependentsDone)

\* C6: while the dependents of a primary are being run, and when the main loop
\* is reached again, the log read by run_dependent_cycles ends with the
\* primary's entry, the dependents are find_triggered_cycles of that log, the
\* ones executed so far are a prefix of it in order, each with one entry after
\* the primary's carrying the next iteration number, the rest is still queued,
\* and unless shutdown was set all of them have been executed.
C6_DependentsInOrder ==
    (pc \in {"dep_loop", "loop"} /\ primaries_started > 0) =>
        LET k == DependentsDone
            P == LogAtTrigger
            T == find_triggered_cycles(config, cycle_name, P)
        IN  /\ k >= 0 /\ k <= Len(T) /\ Len(P) >= 1
            /\ P[Len(P)].cycle = cycle_name
            /\ P[Len(P)].iteration = progress.current_iteration
            /\ \A j \in 1..k : /\ log[Len(P) + j].cycle = T[j]
                                /\ log[Len(P) + j].iteration = progress.current_iteration + j
            /\ pc = "dep_loop" => triggered = SubSeq(T, k + 1, Len(T))
            /\ (pc = "loop" /\ ~shutdown) => k = Len(T)

\* coding at iteration 1 then its dependent gardening at iteration 2
C6_Witness ==
    /\ pc = "loop" /\ ~shutdown
    /\ primaries_started = 1 /\ Len(run_history) = 2
    /\ Len(log) = 2
    /\ log[1].cycle = "coding" /\ log[1].iteration = 1
    /\ log[2].cycle = "gardening" /\ log[2].iteration = 2
    /\ \A i \in 1..2 : log[i].outcome = "Completed successfully"
    /\ find_triggered_cycles(config, "coding", SubSeq(log, 1, 1)) = <<"gardening">>

GateExits == {"denial_gate", "health_gate"}

\* C7: when the gates are about to be applied to an execution, and when a gate
\* has ended the run, the last log entry is the entry of that execution: its
\* cycle, the iteration number it ran under and its denial count; this run
\* has added one entry for every execution handed to the gates.
C7_LoggedBeforeGates ==
    (pc = "gates" \/ exit_status \in GateExits) =>
        /\ Len(log) >= 1
        /\ log[Len(log)].cycle = executing[1].cycle
        /\ log[Len(log)].iteration = iteration - 1
        /\ log[Len(log)].permission_denial_count = result[1].permission_denial_count
        /\ Len(log) >= Len(run_history) + (IF pc = "gates" THEN 1 ELSE 0)
        /\ iteration = 1 + Len(run_history) + (IF pc = "gates" THEN 1 ELSE 0)

\* max_permission_denials = 2 and 3 denials in iteration 1: the run ends
\* through the denial gate with exactly one log entry, carrying the count 3
C7_Witness ==
    /\ exit_status = "denial_gate"
    /\ config.max_permission_denials = 2
    /\ Len(log) = 1
    /\ log[1].iteration = 1
    /\ log[1].permission_denial_count = Some(3)

\* C8: the loop check lets a primary cycle start only with the iteration
\* counter at most max_iterations and the shutdown flag unset; a primary
\* starts only after such a check, the counter changes only by growing by one
\* when an execution is logged, and the number of primaries started never
\* exceeds the counter, hence never max_iterations.
C8_PrimaryStartsBounded ==
    [][/\ (pc' = "resolve" /\ pc # "resolve") =>
              (pc = "loop" /\ iteration <= cli.max_iterations /\ ~shutdown)
       /\ primaries_started' # primaries_started =>
              /\ pc = "resolve"
              /\ primaries_started' = primaries_started + 1
              /\ primaries_started' <= iteration
              /\ iteration <= cli.max_iterations
       /\ iteration' # iteration =>
              (pc = "running" /\ iteration' = iteration + 1 /\ Len(log') = Len(log) + 1)]_vars

\* a run of more than one iteration that started max_iterations primaries and
\* ended by reaching the bound
C8_Witness ==
    /\ exit_status = "ok" /\ ~shutdown
    /\ cli.max_iterations > 1
    /\ primaries_started = cli.max_iterations
    /\ iteration = cli.max_iterations + 1

AfterExecution ==
    {"executed", "gates", "check_shutdown", "dep_loop", "loop", "finalize", "finalize_delete",
     "exited"}

\* C9 as stated: once an execution has finished with the shutdown flag set,
\* no execution is started and the run ends through finalization.
C9_ShutdownAlwaysFinalizes ==
    shutdown_at_finish =>
        /\ pc \in AfterExecution
        /\ pc = "exited" => exit_status = "ok"

\* C9 amended: once an execution has finished with the shutdown flag set, no
\* execution is started, and the run ends either through finalization, with
\* status Stopped, or by the denial or health gate firing on that execution.
C9_ShutdownStopsExecution ==
    shutdown_at_finish =>
        /\ pc \in AfterExecution
        /\ pc = "exited" => exit_status \in {"ok"} \cup GateExits
        /\ exit_status = "ok" => progress.current_status = "stopped"
        /\ exit_status \in GateExits =>
              /\ log[Len(log)].cycle = executing[1].cycle
              /\ log[Len(log)].iteration = iteration - 1

\* a primary finished with the flag set while a dependent was due and
\* iterations were left; the run ended through finalization
C9_Witness ==
    /\ shutdown_at_finish
    /\ exit_status = "ok"
    /\ progress.current_status = "stopped"
    /\ Len(run_history) = 1
    /\ find_triggered_cycles(config, cycle_name, log) # <<>>
    /\ iteration <= cli.max_iterations

C11_TerminatedNotRunning ==
    /\ progress_file # None => progress_file = Some(progress)
    /\ exit_status \in {"ok"} \cup GateExits => progress.current_status # "running"

(***************************************************************************)
(* Claims about the progress file (checked under SpecWriter)               *)
(***************************************************************************)
IsPrefix(a, b) == Len(a) <= Len(b) /\ a = SubSeq(b, 1, Len(a))

\* C12: whatever the reader has read of progress.json, at any moment of a
\* write, is a prefix of one complete snapshot, the one that was the file when
\* the reader opened it (the previous snapshot if a write was then in
\* progress), and a finished read returns that whole snapshot or finds no
\* file; the file under the target name is always a complete snapshot.
C12_NoTornRead ==
    /\ fs.dir[path] # None => fs.inodes[fs.dir[path][1]] = serialize(writer.done)
    /\ observer.pc = "reading" =>
          /\ observer.at_open >= 1
          /\ IsPrefix(observer.buf, serialize(observer.at_open))
    /\ observer.result # None =>
          \/ observer.result = Some(NoFile)
          \/ /\ observer.at_open >= 1
             /\ observer.result = Some(FileContent(serialize(observer.at_open)))

\* a read that began while the second write was filling the temporary file and
\* ended after its rename returned the whole first snapshot
C12_Witness ==
    /\ observer.result = Some(FileContent(serialize(1)))
    /\ observer.at_open = 1
    /\ writer.done = 2
    /\ writer.snap = 2 /\ writer.pc = "idle"

(***************************************************************************)
(* More claims about the run loop (checked under Spec)                     *)
(***************************************************************************)
\* C13: every step of the run, Ctrl+C and the gate exits included, leaves the
\* log as it is or adds exactly one entry at its end, the outcome of the
\* execution that just returned; no entry already in the log is removed or
\* changed, so the log before a step is a prefix of the log after it.
C13_LogOnlyGrows ==
    [][/\ IsPrefix(log, log')
       /\ Len(log') <= Len(log) + 1
       /\ log' # log =>
              /\ pc = "running"
              /\ log'[Len(log')] = build_outcome(result'[1], iteration)]_vars

\* a run over a log left by an earlier run, interrupted and then stopped by a
\* gate after its second execution: the old entry and both new ones are there
C13_Witness ==
    /\ exit_status \in GateExits
    /\ shutdown
    /\ Len(run_history) = 2
    /\ Len(log) = 3
    /\ log[1] = PriorEntry(1, "coding")
    /\ log[2].iteration = 1 /\ log[3].iteration = 2

(***************************************************************************)
(* Claims about multi-step execution (checked under SpecSteps)             *)
(***************************************************************************)
TagOf(i) == steps[trace[i].index].session
\* the steps executed before the i-th that had the same session tag and whose
\* stream carried a SystemInit session id
Registrations(i) ==
    {j \in 1..(i - 1) : /\ TagOf(i) # None
                         /\ TagOf(j) = TagOf(i)
                         /\ trace[j].out.session_id # None}
Latest(S) == CHOOSE j \in S : \A k \in S : k <= j
Occurrences(seq, x) == Cardinality({i \in 1..Len(seq) : seq[i] = x})

\* C14: the command of every executed step starts with "--resume", id, "-p"
\* when an earlier step of this execution with the same session tag produced
\* a session id, id being the id of the latest such step; otherwise (no tag,
\* or a tag not yet registered) it starts with "-p" and has no "--resume".
C14_ResumeIffRegistered ==
    \A i \in 1..Len(trace) :
        LET cmd == trace[i].cmd
        IN  IF Registrations(i) = {}
            THEN cmd[1] = "-p" /\ Occurrences(cmd, "--resume") = 0
            ELSE /\ cmd[1] = "--resume"
                 /\ cmd[2] = trace[Latest(Registrations(i))].out.session_id[1]
                 /\ cmd[3] = "-p"
                 /\ Occurrences(cmd, "--resume") = 1

\* plan (architect) emits session id A, implement (coder) runs, plan-review
\* (architect) is invoked with --resume A before -p
C14_Witness ==
    /\ Len(trace) = 3
    /\ TagOf(1) = Some("architect") /\ TagOf(2) = Some("coder") /\ TagOf(3) = Some("architect")
    /\ trace[1].out.session_id = Some("A")
    /\ trace[2].out.session_id = Some("B")
    /\ SubSeq(trace[3].cmd, 1, 3) = <<"--resume", "A", "-p">>

\* C15: in every cycle execution the first step run with a session tag is
\* invoked without --resume, whatever was registered under that tag in
\* earlier executions; an execution starts with no tag registered.
C15_SessionsScopedToExecution ==
    /\ (spc = "loop" /\ trace = <<>>) => \A t \in SessionTags : session_mgr[t] = None
    /\ \A i \in 1..Len(trace) :
          (TagOf(i) # None /\ \A j \in 1..(i - 1) : TagOf(j) # TagOf(i)) =>
              (trace[i].cmd[1] = "-p" /\ Occurrences(trace[i].cmd, "--resume") = 0)

\* a later execution of the cycle: its first step carries a tag that got a
\* session id in the first execution, and is invoked without --resume
C15_Witness ==
    /\ execs.before # {}
    /\ Len(trace) >= 1
    /\ TagOf(1) # None
    /\ TagOf(1)[1] \in execs.before
    /\ trace[1].cmd[1] = "-p"

\* C16: no step is executed after a step whose exit code is not 0, and the
\* CycleResult returned after such a step has success = false and that
\* step's exit code.
C16_FailFast ==
    /\ \A i \in 1..(Len(trace) - 1) : trace[i].out.exit_code = Some(0)
    /\ (spc \in {"loop", "return"} /\ trace # <<>>
            /\ trace[Len(trace)].out.exit_code # Some(0)) => spc = "return"
    /\ (steps_ret # None /\ steps_ret[1].ok /\ trace[Len(trace)].out.exit_code # Some(0)) =>
          /\ ~steps_ret[1].value.success
          /\ steps_ret[1].value.exit_code = trace[Len(trace)].out.exit_code

\* the first of three steps is killed (no exit code): nothing else is run and
\* the result is a failure without exit code
C16_Witness ==
    /\ steps_ret # None /\ steps_ret[1].ok
    /\ Len(steps) = 3
    /\ Len(trace) = 1
    /\ trace[1].out.exit_code = None
    /\ steps_ret[1].value.exit_code = None
    /\ ~steps_ret[1].value.success

RECURSIVE SumTo(_, _)
SumTo(f, n) == IF n = 0 THEN 0 ELSE f[n] + SumTo(f, n - 1)
Saturated(n) == IF n > u32_MAX THEN u32_MAX ELSE n
RECURSIVE ConcatFiles(_)
ConcatFiles(n) == IF n = 0 THEN <<>> ELSE ConcatFiles(n - 1) \o trace[n].out.files_changed
\* the elements of a sequence in the order of their first occurrence
FirstOccurrences(seq) ==
    LET keep == {i \in 1..Len(seq) : \A j \in 1..(i - 1) : seq[j] # seq[i]}
        nth(k) == CHOOSE i \in keep : Cardinality({j \in keep : j < i}) = k - 1
    IN  [k \in 1..Cardinality(keep) |-> seq[nth(k)]]
StepDenials(i) == IF trace[i].out.result = None THEN 0 ELSE trace[i].out.result[1].denials

\* C17: the CycleResult of a multi-step execution aggregates over the steps
\* executed: duration_secs is the sum of their durations, tests_passed and the
\* denial count are their sums cut off at u32::MAX, files_changed lists their
\* files in order of first occurrence without duplicates, and success holds
\* iff the last executed step exited with code 0.
C17_Aggregates ==
    (steps_ret # None /\ steps_ret[1].ok) =>
        LET r == steps_ret[1].value
            n == Len(trace)
        IN  /\ n >= 1
            /\ r.duration_secs = SumTo([i \in 1..n |-> trace[i].out.duration_secs], n)
            /\ r.tests_passed = Saturated(SumTo([i \in 1..n |-> trace[i].out.tests_passed], n))
            /\ unwrap_or(r.permission_denial_count, 0)
                  = Saturated(SumTo([i \in 1..n |-> StepDenials(i)], n))
            /\ r.files_changed = FirstOccurrences(ConcatFiles(n))
            /\ r.success <=> (trace[n].out.exit_code = Some(0))
            /\ r.exit_code = trace[n].out.exit_code

\* three steps, all exit 0: success, the durations add up, the test count has
\* reached u32::MAX, and a.rs, changed by the first and the third step, is
\* listed once, before b.rs
C17_Witness ==
    /\ steps_ret # None /\ steps_ret[1].ok
    /\ Len(trace) = 3
    /\ steps_ret[1].value.success
    /\ steps_ret[1].value.duration_secs = 5
    /\ trace[1].out.tests_passed + trace[2].out.tests_passed + trace[3].out.tests_passed > u32_MAX
    /\ steps_ret[1].value.tests_passed = u32_MAX
    /\ trace[3].out.files_changed = <<"b.rs", "a.rs">>
    /\ steps_ret[1].value.files_changed = <<"a.rs", "b.rs">>

\* C19: each event the driver reads changes consecutive_denials by its kind
\* alone: a ToolUse or a successful ToolResult sets it to 0, an error
\* ToolResult adds 1, any other event (SystemInit, AssistantText, Result,
\* Unknown) leaves it as it is, and so does a line that parses to no event.
C19_CounterResets ==
    [][/\ fed' # fed =>
            LET e == fed'[Len(fed')]
            IN  /\ fed' = Append(fed, e)
                /\ IsReset(e) => consecutive_denials' = 0
                /\ IsError(e) => consecutive_denials' = consecutive_denials + 1
                /\ (~IsReset(e) /\ ~IsError(e)) => consecutive_denials' = consecutive_denials
       /\ fed' = fed => consecutive_denials' = consecutive_denials]_vars

\* with threshold 2: an error ToolResult, then a Result and an Unknown event,
\* then a second error ToolResult, which counts as consecutive and makes the
\* driver kill the child
C19_Witness ==
    /\ threshold = 2
    /\ Len(fed) = 4
    /\ IsError(fed[1])
    /\ fed[2].kind = "Result"
    /\ fed[3].kind = "Unknown"
    /\ IsError(fed[4])
    /\ consecutive_denials = 2
    /\ child.kill_sent

\* C20: with max_consecutive_failures = n, the step of the run loop that
\* records an execution (primary or dependent) ends the run at the health gate
\* exactly when n > 0, the n most recent executions of the run all failed and
\* the denial gate, which is asked first, has not ended the run already; such a
\* streak always ends the run at this step, and an execution that failed
\* without completing the streak (and without exceeding the denial limit)
\* leaves the run going. The run ends at the health gate in no other step.
C20_HealthGateOnStreak ==
    [][LET n == config.max_consecutive_failures
           streak == n > 0 /\ EndsWithFailures(run_history', n)
           denied == check_denial_gate(unwrap_or(result[1].permission_denial_count, 0),
                                       config.max_permission_denials)
       IN  /\ run_history' # run_history =>
                /\ pc = "gates"
                /\ run_history' = Append(run_history, [success |-> result[1].success])
                /\ exit_status' = "health_gate" <=> (streak /\ ~denied)
                /\ streak => pc' = "exited"
                /\ (~streak /\ ~denied) => (pc' # "exited" /\ exit_status' = "running")
           /\ (exit_status' = "health_gate" /\ exit_status # "health_gate") =>
                run_history' # run_history]_vars

\* n = 2: the primary fails and the run goes on, its dependent fails as well
\* and the health gate ends the run on the two failures
C20_Witness ==
    /\ config.max_consecutive_failures = 2
    /\ run_history = <<[success |-> FALSE], [success |-> FALSE]>>
    /\ executing[1].dependent
    /\ Len(log) >= 2
    /\ log[Len(log)].cycle # log[Len(log) - 1].cycle
    /\ exit_status = "health_gate"

Visits(i) == Cardinality({j \in 1..Len(trace) : trace[j].index = i})

\* C18: in one cycle execution no step is executed more than its max_visits
\* times.
C18_VisitsBounded ==
    \A i \in 1..Len(steps) : Visits(i) <= steps[i].max_visits

(***************************************************************************)
(* Claims about the progress aggregates (checked under Spec)               *)
(***************************************************************************)
RECURSIVE SumDurations(_)
SumDurations(entries) ==
    IF entries = <<>> THEN 0
    ELSE entries[1].duration_secs + SumDurations(Tail(entries))

\* the entries this run has appended: one per execution, and the iteration
\* counter, which starts at 1, has counted the executions
RunEntries == SubSeq(log, Len(log) - (iteration - 1) + 1, Len(log))

\* C21 as stated: once an execution has been appended to the log and counted
\* in the progress, the durations of all log entries add up to
\* total_duration_secs.
C21_LogSumEqualsTotal ==
    pc = "gates" => SumDurations(log) = progress.total_duration_secs

\* C21: the durations of the entries this run has appended add up to
\* total_duration_secs, except between an append and the progress update that
\* follows it, where the entry just appended is not yet counted; entries of
\* earlier runs are never counted.
C21_RunEntriesSumEqualsTotal ==
    /\ pc # "executed" => SumDurations(RunEntries) = progress.total_duration_secs
    /\ pc = "executed" =>
          SumDurations(RunEntries) = progress.total_duration_secs + result[1].duration_secs

\* the second execution of a run that found entries of an earlier run in the
\* log: the total is the sum of the two new entries, less than the whole log's
C21_Witness ==
    /\ pc = "gates"
    /\ Len(run_history) = 1
    /\ iteration = 3
    /\ Len(log) > 2
    /\ progress.total_duration_secs = 2
    /\ SumDurations(log) > 2

(***************************************************************************)
(* Claims about the cycle selector (checked under SpecSelector)            *)
(***************************************************************************)
Configured(cfg, name) == \E i \in 1..Len(cfg.cycles) : cfg.cycles[i].name = name
\* the lines that are JSON objects with string fields "cycle" and "reason"
\* whose cycle is configured
JsonHits(cfg, response) ==
    {i \in 1..Len(response) :
        /\ response[i].json /\ response[i].cycle # None /\ response[i].reason # None
        /\ Configured(cfg, response[i].cycle[1])}
Occurs(name, text) ==
    \E from \in 1..Len(text) : \E to \in from..Len(text) : SubSeq(text, from, to) = name
\* the configured cycles whose name occurs in the response
TextHits(cfg, response) ==
    {j \in 1..Len(cfg.cycles) :
        \E i \in 1..Len(response) : \E t \in pieces(response[i]) :
            Occurs(cfg.cycles[j].name, t)}
Least(S) == CHOOSE i \in S : \A j \in S : i <= j

\* C22: a selection is always a configured cycle: the cycle of the first JSON
\* line that names a configured cycle, or without such a line the first cycle
\* of the configuration whose name occurs in the response; without either
\* select_cycle returns an error.
C22_SelectionIsConfigured ==
    ret # None =>
        LET r == ret[1]
            J == JsonHits(call.config, call.response)
            T == TextHits(call.config, call.response)
        IN  /\ r.ok => Configured(call.config, r.value.cycle)
            /\ J # {} => (r.ok /\ r.value.cycle = call.response[Least(J)].cycle[1])
            /\ (J = {} /\ T # {}) =>
                  (r.ok /\ r.value.cycle = call.config.cycles[Least(T)].name)
            /\ (J = {} /\ T = {}) => ~r.ok

\* the answer names an unknown cycle in its JSON line and mentions both
\* configured cycles, the second one first: the first configured cycle is
\* selected
C22_Witness ==
    /\ ret # None /\ ret[1].ok
    /\ Len(call.config.cycles) = 2
    /\ Len(call.response) = 2
    /\ call.response[1] = TextLine(call.config.cycles[2].name)
    /\ call.response[2].json
    /\ call.response[2].reason # None
    /\ ~Configured(call.config, call.response[2].cycle[1])
    /\ str_contains(call.response[2].cycle[1], call.config.cycles[1].name)
    /\ ret[1].value.cycle = call.config.cycles[1].name

(***************************************************************************)
(* Claims about the exit code of a run (checked under Spec)                *)
(***************************************************************************)
\* every execution appended to the log has been through the gates
Gated == run_history # <<>> /\ Len(run_history) = iteration - 1
\* the last execution exceeded the denial limit or completed a streak of
\* max_consecutive_failures failures
GateFired ==
    /\ Gated
    /\ \/ unwrap_or(log[Len(log)].permission_denial_count, 0) > config.max_permission_denials
       \/ /\ config.max_consecutive_failures > 0
          /\ EndsWithFailures(run_history, config.max_consecutive_failures)

\* C23: a run that ends cleanly (through finalization: all iterations done, or
\* the shutdown flag set) exits with code 0; once the denial gate or the health
\* gate has fired the run has ended with a nonzero code, and a run that ends
\* on an error, such as an agent that cannot be spawned, exits with a nonzero
\* code.
C23_ExitCodes ==
    /\ GateFired =>
          /\ pc = "exited"
          /\ exit_status \in GateExits
          /\ process_exit_code(exit_status) # 0
    /\ pc = "exited" =>
          /\ exit_status \in {"ok", "error"} \cup GateExits
          /\ exit_status = "ok" =>
                /\ process_exit_code(exit_status) = 0
                /\ shutdown \/ iteration > cli.max_iterations
          /\ exit_status \in GateExits => GateFired
          /\ exit_status = "error" => process_exit_code(exit_status) # 0
    /\ process_exit_code(exit_status) = 0 => exit_status = "ok"

\* the agent of the second execution of a run cannot be spawned: the run ends
\* on the error with a nonzero code, the first execution logged and gated
C23_Witness ==
    /\ pc = "exited"
    /\ exit_status = "error"
    /\ process_exit_code(exit_status) = 1
    /\ cli.cycle # None
    /\ Len(run_history) = 1
    /\ iteration = 2
    /\ primaries_started = 2
    /\ result[1].cycle_name = log[Len(log)].cycle
    /\ log[Len(log)].iteration = 1

(***************************************************************************)
(* Claims about errors of the history log (checked under Spec)             *)
(***************************************************************************)
\* C24: every error on the history log ends the run, so a cycle is executed
\* only after the log has been read: the entries handed to the executor are
\* the entries of the log.
C24_LogErrorsAreFatal ==
    pc = "running" => log_entries = Some(log)

(***************************************************************************)
(* Claims about the event parser (checked under SpecParser)                *)
(***************************************************************************)
\* the line is blank, is not valid JSON or has no string type
Malformed(line) == line.kind # "json" \/ line.type = None
\* the blocks that end the scan of a content array: a block without a string
\* type and a block of type text, tool_use or tool_result
Deciding(content) ==
    {i \in 1..Len(content) :
        \/ content[i].type = None
        \/ content[i].type[1] \in {"text", "tool_use", "tool_result"}}
\* an assistant line that gives no event: no content array, no deciding
\* block, or a first deciding block without a type or without its text
Unusable(line) ==
    \/ line.content = None
    \/ LET content == line.content[1]
           D == Deciding(content)
       IN  \/ D = {}
           \/ content[Least(D)].type = None
           \/ content[Least(D)].type[1] = "text" /\ ~content[Least(D)].text

RECURSIVE EditedPaths(_)
\* the file_path of the Edit and Write ToolUse events, in order
EditedPaths(evs) ==
    IF evs = <<>> THEN <<>>
    ELSE LET e == evs[Len(evs)]
             rest == EditedPaths(SubSeq(evs, 1, Len(evs) - 1))
         IN  IF e.kind = "ToolUse" /\ e.tool_name \in {"Edit", "Write"} /\ e.file_path # None
             THEN Append(rest, e.file_path[1])
             ELSE rest
RECURSIVE PassedTotal(_)
\* the sum of the counts extracted from the successful ToolResults
PassedTotal(evs) ==
    IF evs = <<>> THEN 0
    ELSE LET e == evs[Len(evs)]
         IN  PassedTotal(SubSeq(evs, 1, Len(evs) - 1))
               + (IF e.kind = "ToolResult" /\ ~e.is_error
                  THEN unwrap_or(parse_tests_passed(e), 0) ELSE 0)

\* C26: after any sequence of events, files_changed lists the file_path of
\* the Edit and Write ToolUse events in order of first occurrence without
\* duplicates, and tests_passed is the sum, cut off at u32::MAX, of the counts
\* extracted from the successful ToolResults.
C26_FilesAndTests ==
    accumulator # None =>
        /\ accumulator[1].files_changed = FirstOccurrences(EditedPaths(fed))
        /\ accumulator[1].tests_passed = Saturated(PassedTotal(fed))

\* a.rs edited twice and two test summaries whose counts exceed u32::MAX
\* together: one file, a saturated count
C26_Witness ==
    /\ Len(fed) = 4
    /\ EditedPaths(fed) = <<"a.rs", "a.rs">>
    /\ PassedTotal(fed) > u32_MAX
    /\ accumulator[1].files_changed = <<"a.rs">>
    /\ accumulator[1].tests_passed = u32_MAX

\* the SystemInit events fed, in order
SystemInits(evs) == SelectSeq(evs, LAMBDA e : e.kind = "SystemInit")

\* C27: the accumulator's session_id is the one of the first SystemInit of
\* the stream, whatever SystemInit events follow.
C27_FirstSessionIdKept ==
    accumulator # None =>
        accumulator[1].session_id =
            (IF SystemInits(fed) = <<>> THEN None ELSE Some(SystemInits(fed)[1].session_id))

\* C29: cancellation aborts a selector invocation in flight: when the
\* shutdown flag is set while the run loop waits for the cycle selector, no
\* cycle is started on the selector's answer.
C29_SelectorAbortedOnShutdown ==
    [][(pc = "resolve" /\ cli.cycle = None /\ shutdown) => pc' # "exec"]_vars

(***************************************************************************)
(* Claims about the permission resolver (checked under SpecPermissions)    *)
(***************************************************************************)
NoDuplicates(seq) == \A i, j \in 1..Len(seq) : seq[i] = seq[j] => i = j

\* C28: the resolved list is G ++ C ++ S with every token removed after its
\* first occurrence: no duplicates, G's tokens first, then C's new ones, then
\* S's new ones; without a step list it is G ++ C treated the same way.
C28_ResolveIsDedupedConcat ==
    ret # None =>
        LET G == call.global.permissions
            C == call.cycle.permissions
            S == call.step.permissions
            r == ret[1]
            g == Len(FirstOccurrences(G))
            gc == Len(FirstOccurrences(G \o C))
        IN  /\ r.cycle = FirstOccurrences(G \o C)
            /\ r.step = FirstOccurrences((G \o C) \o S)
            /\ NoDuplicates(r.step)
            /\ SubSeq(r.step, 1, g) = FirstOccurrences(G)
            /\ SubSeq(r.step, 1, gc) = r.cycle
            /\ \A i \in (g + 1)..gc : \E k \in 1..Len(C) : r.step[i] = C[k]
            /\ \A i \in (gc + 1)..Len(r.step) : \E k \in 1..Len(S) : r.step[i] = S[k]

\* G = [Read], C = [Read, Bash(cargo *)], S = [Bash(cargo *), Edit(./src/**)]:
\* each repeated token is dropped where it comes again
C28_Witness ==
    /\ ret # None
    /\ call.global.permissions = <<"Read">>
    /\ call.cycle.permissions = <<"Read", "Bash(cargo *)">>
    /\ call.step.permissions = <<"Bash(cargo *)", "Edit(./src/**)">>
    /\ ret[1].cycle = <<"Read", "Bash(cargo *)">>
    /\ ret[1].step = <<"Read", "Bash(cargo *)", "Edit(./src/**)">>

(***************************************************************************)
(* Claims about the step router (checked under SpecRouter)                 *)
(***************************************************************************)
LlmRouting == call.all_steps[call.completed_step_index].router = "llm"

\* the steps whose visit count has not reached their max_visits
Eligible ==
    {i \in 1..Len(call.all_steps) :
        count(call.visit_tracker, call.all_steps[i].name) < call.all_steps[i].max_visits}

\* C30: with LLM routing the router never yields a GoTo to a step whose visit
\* count has reached its max_visits, whatever the agent answers: the target
\* of a GoTo is the name of an eligible step, and when no step is eligible
\* the decision is Done("All steps have reached their max_visits limit") and
\* the agent is not invoked.
C30_GoToOnlyEligible ==
    (ret # None /\ LlmRouting) =>
        LET r == ret[1]
        IN  /\ (r.decision.ok /\ r.decision.value[1].kind = "GoTo") =>
                  \E i \in Eligible : call.all_steps[i].name = r.decision.value[1].step_name
            /\ Eligible = {} =>
                  /\ ~r.invoked
                  /\ r.decision.ok
                  /\ r.decision.value[1].kind = "Done"
                  /\ r.decision.value[1].reason
                        = Text("All steps have reached their max_visits limit")
            /\ Eligible # {} => r.invoked

\* steps "ab" (visited max_visits times) and "a" (not visited); the agent
\* answers {"next": "ab", "reason": ...} and the router goes to "a"
C30_Witness ==
    /\ ret # None
    /\ LlmRouting
    /\ Len(call.all_steps) = 2
    /\ call.all_steps[1].name = <<"a", "b">>
    /\ call.all_steps[1].max_visits = MaxVisits
    /\ call.visit_tracker[<<"a", "b">>] = MaxVisits
    /\ call.all_steps[2].name = <<"a">>
    /\ Eligible = {2}
    /\ ret[1].invoked
    /\ ret[1].response = Some(<<RouterJson(Some(<<"a", "b">>), Some(<<"b">>))>>)
    /\ ret[1].decision.ok
    /\ ret[1].decision.value[1].kind = "GoTo"
    /\ ret[1].decision.value[1].step_name = <<"a">>

(***************************************************************************)
(* Further claims about the run loop (checked under Spec)                  *)
(***************************************************************************)
\* from the start of an execution to the progress update that follows it
InExecution == pc \in {"exec", "running", "executed"}

ExecutedTotal ==
    SumTo([i \in 1..Len(CycleNames) |-> progress.cycles_executed[CycleNames[i]]],
          Len(CycleNames))

\* C34: the log grows only by one entry at a time, together with the
\* iteration counter, so the run has appended iteration - 1 entries; between
\* executions that number is the sum of progress.cycles_executed, and the
\* k-th entry the run appended carries iteration number k, for primary and
\* dependent executions alike.
C34_CountersAgree ==
    /\ [][\/ log' = log /\ iteration' = iteration
          \/ /\ iteration' = iteration + 1
             /\ Len(log') = Len(log) + 1
             /\ SubSeq(log', 1, Len(log)) = log]_vars
    /\ [](~InExecution =>
            /\ ExecutedTotal = iteration - 1
            /\ Len(log) >= iteration - 1
            /\ \A k \in 1..(iteration - 1) :
                  log[Len(log) - (iteration - 1) + k].iteration = k)

\* after a primary and a dependent execution on top of a prior log: two
\* entries appended, numbered 1 and 2, one execution counted for each cycle
C34_Witness ==
    /\ pc = "loop"
    /\ iteration = 3
    /\ Len(log) = 3
    /\ executing # None /\ executing[1].dependent
    /\ log[2].iteration = 1 /\ log[3].iteration = 2
    /\ log[2].cycle # log[3].cycle
    /\ \A n \in NameSet : progress.cycles_executed[n] = 1


(***************************************************************************)
\* C35: auto-triggering is one level deep: the triggered list is computed
\* for the primary only, never for a cycle executed as a dependent; a cycle
\* executed as a dependent has the primary in its `after`; the dependents
\* executed for one primary are distinct cycles, and none of them is still
\* queued.
C35_OneLevelDeep ==
    /\ pc = "deps" => ~executing[1].dependent /\ executing[1].cycle = cycle_name
    /\ (executing # None /\ executing[1].dependent) =>
          cycle_name \in get_cycle(config, executing[1].cycle)[1].after
    /\ (pc \in {"dep_loop", "loop"} /\ primaries_started > 0) =>
          LET k == DependentsDone
              base == Len(LogAtTrigger)
          IN  /\ \A i, j \in 1..k : log[base + i].cycle = log[base + j].cycle => i = j
              /\ \A i \in 1..k : cycle_name \in get_cycle(config, log[base + i].cycle)[1].after
              /\ pc = "dep_loop" =>
                    \A i \in 1..k : \A j \in 1..Len(triggered) :
                       log[base + i].cycle # triggered[j]

\* every cycle is after every cycle; the primary coding was followed by the
\* dependents coding and gardening, once each, and the loop is reached again
\* without coding having been run for gardening
C35_Witness ==
    /\ pc = "loop" /\ ~shutdown
    /\ primaries_started = 1
    /\ \A i \in 1..Len(config.cycles) : config.cycles[i].after = NameSet
    /\ Len(log) = 3
    /\ log[1].cycle = "coding" /\ log[2].cycle = "coding" /\ log[3].cycle = "gardening"
    /\ executing[1].dependent
    /\ iteration = 4

\* executions finished or in progress
Executions == (iteration - 1) + (IF pc \in {"exec", "running"} THEN 1 ELSE 0)

\* C36: provided every agent invocation returns, a run with max_iterations =
\* n over N cycles performs at most n + N cycle executions and then
\* terminates, also when the `after` references form a cycle.
C36_RunTerminates ==
    /\ [](Executions <= cli.max_iterations + Len(config.cycles))
    /\ <>(pc = "exited")

\* max_iterations = 1, two cycles that are after each other and themselves:
\* the primary and two dependents, n + N = 3 executions, then a clean end
C36_Witness ==
    /\ pc = "exited" /\ exit_status = "ok"
    /\ cli.max_iterations = 1
    /\ \A i \in 1..Len(config.cycles) : config.cycles[i].after = NameSet
    /\ iteration - 1 = cli.max_iterations + Len(config.cycles)
    /\ Len(run_history) = 3

\* str::starts_with
starts_with(text, prefix) ==
    Len(text) >= Len(prefix) /\ SubSeq(text, 1, Len(prefix)) = prefix

\* C38: the log entry written for an execution is classified as failed by the
\* readers of the log (its outcome starts with "Failed") iff the execution's
\* success flag is false.
C38_FailedIffNotSuccess ==
    pc = "executed" =>
        (starts_with(log[Len(log)].outcome, "Failed") <=> ~result[1].success)

\* the cycles c the claim is about: dependents of the fixed primary with a
\* min_interval of at least 1
SpacedDependents ==
    {i \in 1..Len(config.cycles) :
        /\ cli.cycle # None
        /\ config.cycles[i].name # cli.cycle[1]
        /\ cli.cycle[1] \in config.cycles[i].after
        /\ config.cycles[i].min_interval # None
        /\ config.cycles[i].min_interval[1] >= 1}

\* the entries of the log appended by this run
AppendedByRun == (Len(log) - (iteration - 1) + 1)..Len(log)

\* C39: in a run with a fixed primary a, for a dependent c of a with
\* min_interval n >= 1, between an entry for c appended by the run and the
\* previous entry for c in the log, whether of this run or an earlier one,
\* there are at least n entries, all of other cycles.
C39_DependentSpacing ==
    \A c \in SpacedDependents :
        \A i \in AppendedByRun :
            \A j \in 1..(i - 1) :
                (/\ log[i].cycle = config.cycles[c].name
                 /\ log[j].cycle = config.cycles[c].name
                 /\ \A m \in (j + 1)..(i - 1) : log[m].cycle # config.cycles[c].name)
                    => i - j - 1 >= config.cycles[c].min_interval[1]

\* gardening is after coding with min_interval MaxInterval; an earlier run
\* left gardening followed by MaxInterval - 1 entries of coding; this run
\* executes coding and then gardening, exactly MaxInterval entries later
C39_Witness ==
    /\ SpacedDependents = {2}
    /\ config.cycles[2].min_interval = Some(MaxInterval)
    /\ iteration = 3
    /\ Len(log) = MaxInterval + 2
    /\ log[1].cycle = "gardening"
    /\ \A m \in 2..(MaxInterval + 1) : log[m].cycle = "coding"
    /\ log[MaxInterval + 2].cycle = "gardening"
    /\ log[MaxInterval + 2].iteration = 2

\* the primary of the current iteration failed
PrimaryFailed ==
    /\ Len(run_history) > DependentsDone
    /\ ~run_history[Len(run_history) - DependentsDone].success

\* C40: the dependents of a primary are triggered whether it succeeded or
\* failed: when the main loop is reached again after a failed primary, with
\* no gate tripped and shutdown unset, every cycle that find_triggered_cycles
\* returns for the primary has been executed after it, in order.
C40_FailedPrimaryTriggers ==
    (pc = "loop" /\ ~shutdown /\ primaries_started > 0 /\ PrimaryFailed) =>
        LET T == find_triggered_cycles(config, cycle_name, LogAtTrigger)
        IN  /\ DependentsDone = Len(T)
            /\ \A j \in 1..Len(T) : log[Len(LogAtTrigger) + j].cycle = T[j]

\* coding failed with exit code 1 without tripping a gate and its dependent
\* gardening was executed after it
C40_Witness ==
    /\ pc = "loop" /\ ~shutdown
    /\ primaries_started = 1
    /\ cycle_name = "coding"
    /\ Len(run_history) = 2
    /\ ~run_history[1].success
    /\ Len(log) = 2
    /\ log[1].cycle = "coding" /\ log[1].outcome = "Failed with exit code 1"
    /\ log[2].cycle = "gardening" /\ log[2].iteration = 2
    /\ find_triggered_cycles(config, "coding", SubSeq(log, 1, 1)) = <<"gardening">>

(***************************************************************************)
(* Further claims about the subprocess driver (checked under SpecDriver)   *)
(***************************************************************************)
IsResult(e) == e.kind = "Result"

\* C32: in one agent invocation the driver feeds at most one Result event to
\* the accumulator, so the stored result is never overwritten by a later one.
C32_AtMostOneResult == CountKind(fed, IsResult) <= 1

\* C33: an invocation of the selector or the router that spawned a child has
\* waited on or killed that child on every path by which it returns, error
\* returns included.
C33_ChildWaitedOrKilled ==
    (dpc = "returned" /\ child # NoChild) => (child.state = "reaped" \/ child.kill_sent)

\* C37: whenever the circuit breaker has fired in a cycle execution, the
\* CycleResult built from what the driver returns has success = FALSE.
C37_BreakerMeansFailure ==
    (dpc = "returned" /\ child.kill_sent) =>
        ~build_cycle_result(CycleNames[1], driver_ret[1], 1, None).success

(***************************************************************************)
(* Further claims about multi-step execution                               *)
(***************************************************************************)
\* C31: every multi-step cycle execution terminates after finitely many step
\* executions, whatever the routers and max_visits of its steps, provided
\* each agent invocation returns: an execution in progress has run at most
\* as many steps as the cycle has, and it always comes to return.
C31_ExecutionTerminates ==
    /\ [](Len(trace) <= Len(steps))
    /\ (spc = "loop") ~> (spc = "call" /\ steps_ret # None)

\* an execution of MaxSteps steps, the first with an LLM router and
\* max_visits 0, the last with a sequential router, has run every step once
\* and returned its result
C31_Witness ==
    /\ spc = "call"
    /\ steps_ret # None
    /\ steps_ret[1].ok
    /\ Len(steps) = MaxSteps
    /\ steps[1].router = "llm" /\ steps[1].max_visits = 0
    /\ steps[Len(steps)].router = "sequential"
    /\ Len(trace) = MaxSteps

====
